---- MODULE Spec2Model ----
(***************************************************************************)
(* Model of the API comparison tool of forest                              *)
(* (src/tool/subcommands/api_cmd.rs): classification of endpoint           *)
(* responses (EndpointStatus::from_json_error, RpcTest::run), the filter   *)
(* list, and the bounded concurrent executor with its result maps          *)
(* (run_tests, print_test_results); and of the bad-block handlers of the   *)
(* sync API (src/rpc/sync_api.rs).                                         *)
(***************************************************************************)
EXTENDS Integers, Sequences, FiniteSets, TLC

VARIABLES
    args,             \* arguments of compare_apis: the two addresses, the snapshot
    tests,            \* Vec<RpcTest> handed to run_tests, sorted by method name
    config,           \* ApiTestFlags
    communication,    \* CommunicationProtocol derived, "none" before
    store_opened,     \* whether the chain archive was opened
    pc,               \* "compare", "snapshot_tests", "run", "print", "done"; "serve"
    next_test,        \* index of the test the scheduling loop looks at next
    permits,          \* permits available in the semaphore
    units,            \* per test: the spawned task, its responses and its output
    success_results,  \* HashMap<(method, forest status, lotus status), u32>
    failed_results,   \* HashMap<(method, forest status, lotus status), u32>
    printed,          \* tables written to standard output, in order
    ret,              \* value returned by run_tests: "none" until it returns
    bad_blocks,       \* RPCState::bad_blocks: the reasons of the blocks marked bad
    sync_calls        \* the calls of the sync API served so far, with their results

vars == <<args, tests, config, communication, store_opened, pc, next_test, permits, units,
          success_results, failed_results, printed, ret, bad_blocks, sync_calls>>

----------------------------------------------------------------------------
(* Bounds of the model *)

MaxTests == 2          \* length of the catalogue
MaxPermits == 2        \* largest max_concurrent_requests
MaxLines == 2          \* lines of a filter file
MaxTipsets == 2        \* tipsets of a chain archive
MaxResults == 3        \* results consumed before a table is printed
MaxCids == 2           \* block CIDs asked about through the sync API
MaxCalls == 3          \* calls of the sync API served

None == "None"

----------------------------------------------------------------------------
(* EndpointStatus and its derived order *)

EndpointStatus ==
    {"MissingMethod", "InvalidRequest", "InternalServerError", "InvalidJSON",
     "InvalidResponse", "Timeout", "Valid"}

StatusRank(s) ==
    CASE s = "MissingMethod" -> 0
      [] s = "InvalidRequest" -> 1
      [] s = "InternalServerError" -> 2
      [] s = "InvalidJSON" -> 3
      [] s = "InvalidResponse" -> 4
      [] s = "Timeout" -> 5
      [] s = "Valid" -> 6

----------------------------------------------------------------------------
(* JsonRpcError: an error code and a message.  The code is kept as the     *)
(* jsonrpsee ErrorCode it converts to; ServerError carries its number.     *)

ErrorCodes ==
    {[tag |-> "ParseError"], [tag |-> "OversizedRequest"],
     [tag |-> "InvalidRequest"], [tag |-> "MethodNotFound"],
     [tag |-> "InternalError"],
     [tag |-> "ServerError", n |-> 0], [tag |-> "ServerError", n |-> 1]}

Messages == {"Operation timed out", "failure", "Server error"}

\* str::contains("timed out") on the messages of the model
contains_timed_out(msg) == msg = "Operation timed out"

JsonRpcErrors == [code : ErrorCodes, message : Messages]

known_code(err) == err.code

\* ErrorCode::code of the match binding `it`
ErrorCode_code(it) ==
    CASE it.tag = "ParseError" -> -32700
      [] it.tag = "OversizedRequest" -> -32701
      [] it.tag = "InvalidRequest" -> -32600
      [] it.tag = "MethodNotFound" -> -32601
      [] it.tag = "InternalError" -> -32603
      [] it.tag = "ServerError" -> it.n

\* ErrorCode::message of the match binding `it`: the fixed text of the code,
\* not the message carried by the error
ErrorCode_message(it) ==
    CASE it.tag = "ParseError" -> "Parse error"
      [] it.tag = "OversizedRequest" -> "Request is too big"
      [] it.tag = "InvalidRequest" -> "Invalid request"
      [] it.tag = "MethodNotFound" -> "Method not found"
      [] it.tag = "InternalError" -> "Internal error"
      [] it.tag = "ServerError" -> "Server error"

from_json_error_parse_internal(err) ==
    LET it == known_code(err) IN
    CASE it.tag = "OversizedRequest" -> "InvalidRequest"
      [] it.tag = "InvalidRequest" -> "InvalidRequest"
      [] it.tag = "MethodNotFound" -> "MissingMethod"
      [] OTHER -> "InternalServerError"

from_json_error(err) ==
    LET it == known_code(err) IN
    CASE it.tag = "ParseError" -> "InvalidResponse"
      [] it.tag = "OversizedRequest" -> "InvalidRequest"
      [] it.tag = "InvalidRequest" -> "InvalidRequest"
      [] it.tag = "MethodNotFound" -> "MissingMethod"
      [] OTHER ->
           IF ErrorCode_code(it) = 0 /\ contains_timed_out(ErrorCode_message(it))
           THEN "Timeout"
           ELSE "InternalServerError"

----------------------------------------------------------------------------
(* Responses: Ok(serde_json::Value) or Err(JsonRpcError) *)

JsonValues == {"j1", "j1x", "j1r", "j2", "bad"}

Ok(v) == [ok |-> TRUE, value |-> v]
Err(e) == [ok |-> FALSE, error |-> e]

\* serde_json::from_value::<T::LotusJson>: "j1" and "j1x" are different JSON
\* texts of one LotusJson (an unknown field is dropped), "bad" has the wrong
\* shape
from_value(value) ==
    CASE value = "j1" -> "l1"
      [] value = "j1x" -> "l1"
      [] value = "j1r" -> "l1r"
      [] value = "j2" -> "l2"
      [] OTHER -> None

is_ok(decoded) == decoded /= None

\* HasLotusJson::from_lotus_json: the typed domain value
from_lotus_json(lotus_json) ==
    CASE lotus_json = "l1" -> [body |-> 1, return_dec |-> "Null"]
      [] lotus_json = "l1r" -> [body |-> 1, return_dec |-> "Bytes"]
      [] lotus_json = "l2" -> [body |-> 2, return_dec |-> "Null"]

----------------------------------------------------------------------------
(* RpcTest: the constructors fix check_syntax and check_semantics *)

Kinds == {"basic", "identity", "message_lookup"}

\* the predicate handed to RpcTest::validate
identity_validate(forest, lotus) == forest = lotus

validate_message_lookup(forest, lotus) ==
    [forest EXCEPT !.return_dec = "Null"] = [lotus EXCEPT !.return_dec = "Null"]

validate(test, forest, lotus) ==
    IF test.kind = "identity"
    THEN identity_validate(forest, lotus)
    ELSE validate_message_lookup(forest, lotus)

check_syntax(test, value) == is_ok(from_value(value))

check_semantics_always_compares(test, forest_json, lotus_json) ==
    /\ is_ok(from_value(forest_json))
    /\ is_ok(from_value(lotus_json))
    /\ from_lotus_json(from_value(forest_json)) = from_lotus_json(from_value(lotus_json))

\* mutant: the predicate is applied to the raw JSON values
check_semantics_raw(test, forest_json, lotus_json) ==
    IF test.kind = "basic"
    THEN TRUE
    ELSE /\ is_ok(from_value(forest_json))
         /\ is_ok(from_value(lotus_json))
         /\ forest_json = lotus_json

check_semantics(test, forest_json, lotus_json) ==
    IF test.kind = "basic"
    THEN TRUE
    ELSE /\ is_ok(from_value(forest_json))
         /\ is_ok(from_value(lotus_json))
         /\ validate(test, from_lotus_json(from_value(forest_json)),
                           from_lotus_json(from_value(lotus_json)))

\* guard of the first arm of the match in RpcTest::run
both_syntax_valid(test, forest_resp, lotus_resp) ==
    /\ forest_resp.ok /\ lotus_resp.ok
    /\ check_syntax(test, forest_resp.value)
    /\ check_syntax(test, lotus_resp.value)

\* mutant: a failed semantic check is charged to Lotus
semantic_arm_lotus(test, forest, lotus) ==
    <<"Valid",
      IF check_semantics(test, forest, lotus) THEN "Valid" ELSE "InvalidResponse">>

\* mutant: a failed semantic check is charged to both sides
semantic_arm_both(test, forest, lotus) ==
    IF check_semantics(test, forest, lotus)
    THEN <<"Valid", "Valid">>
    ELSE <<"InvalidResponse", "InvalidResponse">>

\* body of the first arm: the semantic check decides the Forest status only
semantic_arm(test, forest, lotus) ==
    <<IF check_semantics(test, forest, lotus) THEN "Valid" ELSE "InvalidResponse",
      "Valid">>

\* mutant: the guard compares the classes of the two errors
same_error_by_class(forest_resp, lotus_resp) ==
    /\ ~forest_resp.ok /\ ~lotus_resp.ok
    /\ from_json_error(forest_resp.error) = from_json_error(lotus_resp.error)

\* mutant: the comparison of the two errors is inverted
same_error_inverted(forest_resp, lotus_resp) ==
    /\ ~forest_resp.ok /\ ~lotus_resp.ok
    /\ forest_resp.error /= lotus_resp.error

\* guard of the second arm: two errors that are equal (code and message)
same_error(forest_resp, lotus_resp) ==
    /\ ~forest_resp.ok /\ ~lotus_resp.ok
    /\ forest_resp.error = lotus_resp.error

\* mutant: a value is not checked again in the third arm
side_status_unchecked(test, resp) ==
    IF resp.ok THEN "Valid" ELSE from_json_error(resp.error)

\* map_or_else of the third arm, applied to one response
side_status(test, resp) ==
    IF resp.ok
    THEN (IF check_syntax(test, resp.value) THEN "Valid" ELSE "InvalidJSON")
    ELSE from_json_error(resp.error)

\* the match of RpcTest::run on the two responses
run(test, forest_resp, lotus_resp) ==
    IF both_syntax_valid(test, forest_resp, lotus_resp)
    THEN semantic_arm(test, forest_resp.value, lotus_resp.value)
    ELSE IF same_error(forest_resp, lotus_resp)
    THEN <<"Valid", "Valid">>
    ELSE <<side_status(test, forest_resp), side_status(test, lotus_resp)>>

----------------------------------------------------------------------------
(* snapshot_tests: the tests generated from a chain archive.               *)
(* An archive is [chain, fail]: chain[1] is the heaviest tipset and        *)
(* chain[p + 1] the parent of chain[p]; fail names the read that fails.    *)
(* A tipset is [blocks, deals], a block [bls, secp] (message CIDs).        *)

NoFail == [kind |-> "none", pos |-> 0]

Fails(store, kind, pos) == store.fail = [kind |-> kind, pos |-> pos]

\* the message with a CID: sender, receiver and parameters
Message(cid) == [cid |-> cid, from |-> <<"addr", cid>>, to |-> <<"addr", cid + 10>>,
                 method_num |-> cid, params |-> IF cid = 3 THEN <<>> ELSE <<cid>>]

TipsetKey(pos) == <<"tsk", pos>>

\* ApiTipsetKey of Default::default()
DefaultKey == <<"tsk", 0>>

Epoch(store, pos) == Len(store.chain) - pos

BlockCid(pos, b) == <<"block", pos, b>>

MinerAddress(b) == <<"miner", b>>

\* Tipset::parents of the tipset at pos: the key of the next tipset of the chain
Parents(store, pos) == IF pos < Len(store.chain) THEN TipsetKey(pos + 1) ELSE DefaultKey

Request(method, params) ==
    [method_name |-> method, params |-> params, kind |-> "identity",
     ignore |-> None, timeout |-> "default"]

\* RpcTest::identity, RpcTest::basic and validate_message_lookup on a request
identity(request) == [request EXCEPT !.kind = "identity"]

basic(request) == [request EXCEPT !.kind = "basic"]

message_lookup(request) == [request EXCEPT !.kind = "message_lookup"]

\* RpcTest::ignore and RpcTest::with_timeout
ignore(test, msg) == [test EXCEPT !.ignore = msg]

with_timeout(test, timeout) == [test EXCEPT !.timeout = timeout]

chain_tests_with_tipset(store) ==
    << identity(Request("Filecoin.ChainGetBlock", <<BlockCid(1, 1)>>)),
       identity(Request("Filecoin.ChainGetTipSetByHeight", <<Epoch(store, 1), DefaultKey>>)),
       identity(Request("Filecoin.ChainGetTipSetAfterHeight", <<Epoch(store, 1), DefaultKey>>)),
       identity(Request("Filecoin.ChainGetTipSet", <<TipsetKey(1)>>)),
       identity(Request("Filecoin.ChainReadObj", <<BlockCid(1, 1)>>)),
       identity(Request("Filecoin.ChainHasObj", <<BlockCid(1, 1)>>)),
       identity(Request("Filecoin.ChainGetPath", <<TipsetKey(1), Parents(store, 1)>>)) >>

state_tests(store) ==
    << identity(Request("Filecoin.StateNetworkName", <<>>)),
       identity(Request("Filecoin.StateGetActor", <<"SYSTEM_ACTOR", TipsetKey(1)>>)),
       identity(Request("Filecoin.StateGetRandomnessFromTickets",
                        <<TipsetKey(1), Epoch(store, 1), "dead beef">>)),
       identity(Request("Filecoin.StateGetRandomnessFromBeacon",
                        <<TipsetKey(1), Epoch(store, 1), "dead beef">>)),
       identity(Request("Filecoin.StateReadState", <<"SYSTEM_ACTOR", TipsetKey(1)>>)),
       identity(Request("Filecoin.StateReadState", <<"SYSTEM_ACTOR", DefaultKey>>)),
       identity(Request("Filecoin.StateMinerActiveSectors", <<MinerAddress(1), TipsetKey(1)>>)),
       identity(Request("Filecoin.StateLookupID", <<MinerAddress(1), TipsetKey(1)>>)),
       identity(Request("Filecoin.StateLookupID", <<<<"id", "deadbeef">>, TipsetKey(1)>>)),
       identity(Request("Filecoin.StateNetworkVersion", <<TipsetKey(1)>>)),
       identity(Request("Filecoin.StateListMiners", <<TipsetKey(1)>>)),
       identity(Request("Filecoin.StateSectorGetInfo", <<MinerAddress(1), 101, TipsetKey(1)>>)),
       identity(Request("Filecoin.MsigGetAvailableBalance", <<<<"id", "18101">>, TipsetKey(1)>>)),
       identity(Request("Filecoin.MsigGetPending", <<<<"id", "18101">>, TipsetKey(1)>>)) >>

eth_tests_with_tipset(store) ==
    << identity(Request("Filecoin.EthGetBalance", <<"0xff38", Epoch(store, 1)>>)),
       identity(Request("Filecoin.EthGetBalance", <<"0xff00", Epoch(store, 1)>>)) >>

\* the tests pushed before the traversal starts
root_tests(store) ==
    chain_tests_with_tipset(store) \o state_tests(store) \o eth_tests_with_tipset(store)
    \o << identity(Request("Filecoin.StateVerifiedClientStatus",
                            <<"VERIFIED_REGISTRY_ACTOR", TipsetKey(1)>>)),
           identity(Request("Filecoin.StateVerifiedClientStatus",
                            <<"DATACAP_TOKEN_ACTOR", TipsetKey(1)>>)) >>

\* MessageFilter { from: None, .. } and { to: None, .. }: no address
NoAddress == <<"none", 0>>

\* the tests pushed for a BLS message whose CID is new
bls_message_tests(store, msg) ==
    << identity(Request("Filecoin.ChainGetMessage", <<msg.cid>>)),
       identity(Request("Filecoin.StateAccountKey", <<msg.from, TipsetKey(1)>>)),
       identity(Request("Filecoin.StateAccountKey", <<msg.from, DefaultKey>>)),
       identity(Request("Filecoin.StateLookupID", <<msg.from, TipsetKey(1)>>)),
       with_timeout(message_lookup(Request("Filecoin.StateWaitMsg", <<msg.cid, 0>>)), 30),
       ignore(message_lookup(Request("Filecoin.StateSearchMsg", <<msg.cid>>)),
              "Not implemented yet"),
       ignore(message_lookup(Request("Filecoin.StateSearchMsgLimited", <<msg.cid, 800>>)),
              "Not implemented yet"),
       identity(Request("Filecoin.StateListMessages",
                        <<<<msg.from, msg.to>>, TipsetKey(1), Epoch(store, 1)>>)),
       message_lookup(Request("Filecoin.StateSearchMsg", <<msg.cid>>)),
       message_lookup(Request("Filecoin.StateSearchMsgLimited", <<msg.cid, 800>>)) >>

\* mutant: a new Secp256k1 message gets the tests of a BLS message
secp_message_tests_as_bls(store, msg) == bls_message_tests(store, msg)

\* the tests pushed for a Secp256k1 message whose CID is new
secp_message_tests(store, msg) ==
    << identity(Request("Filecoin.ChainGetMessage", <<msg.cid>>)),
       identity(Request("Filecoin.StateAccountKey", <<msg.from, TipsetKey(1)>>)),
       identity(Request("Filecoin.StateAccountKey", <<msg.from, DefaultKey>>)),
       identity(Request("Filecoin.StateLookupID", <<msg.from, TipsetKey(1)>>)),
       with_timeout(message_lookup(Request("Filecoin.StateWaitMsg", <<msg.cid, 0>>)), 30),
       message_lookup(Request("Filecoin.StateSearchMsg", <<msg.cid>>)),
       message_lookup(Request("Filecoin.StateSearchMsgLimited", <<msg.cid, 800>>)),
       basic(Request("Filecoin.MpoolGetNonce", <<msg.from>>)),
       identity(Request("Filecoin.StateListMessages",
                        <<<<NoAddress, msg.to>>, TipsetKey(1), Epoch(store, 1)>>)),
       identity(Request("Filecoin.StateListMessages",
                        <<<<msg.from, NoAddress>>, TipsetKey(1), Epoch(store, 1)>>)),
       identity(Request("Filecoin.StateListMessages",
                        <<<<NoAddress, NoAddress>>, TipsetKey(1), Epoch(store, 1)>>)) >>
    \o (IF msg.params /= <<>>
        THEN << ignore(identity(Request("Filecoin.StateDecodeParams",
                                        <<msg.to, msg.method_num, msg.params, TipsetKey(1)>>)),
                       "Difficult to implement") >>
        ELSE <<>>)

\* the state of the generator: tests pushed, CIDs seen, error met ("" if none)
Push(acc, new_tests) == [acc EXCEPT !.tests = @ \o new_tests]

Abort(acc, error) == [acc EXCEPT !.err = error]

RECURSIVE message_loop_every_occurrence(_, _, _, _, _)
message_loop_every_occurrence(store, pos, cids, is_bls, acc) ==
    IF cids = <<>> \/ acc.err /= "" THEN acc
    ELSE IF Fails(store, "message_cid", pos) THEN Abort(acc, "message cid")
    ELSE LET msg == Message(Head(cids))
             next == Push(acc, IF is_bls THEN bls_message_tests(store, msg)
                               ELSE secp_message_tests(store, msg))
         IN message_loop_every_occurrence(store, pos, Tail(cids), is_bls, next)

\* one of the two message loops of a block: `if seen.insert(msg.cid()?)`
RECURSIVE message_loop(_, _, _, _, _)
message_loop(store, pos, cids, is_bls, acc) ==
    IF cids = <<>> \/ acc.err /= "" THEN acc
    ELSE IF Fails(store, "message_cid", pos) THEN Abort(acc, "message cid")
    ELSE LET msg == Message(Head(cids))
             next == IF msg.cid \in acc.seen THEN acc
                     ELSE [Push(acc, IF is_bls THEN bls_message_tests(store, msg)
                                     ELSE secp_message_tests(store, msg))
                             EXCEPT !.seen = @ \cup {msg.cid}]
         IN message_loop(store, pos, Tail(cids), is_bls, next)

miner_tests(store, pos, b) ==
    << identity(Request("Filecoin.StateMinerInfo", <<MinerAddress(b), TipsetKey(pos)>>)),
       identity(Request("Filecoin.StateMinerPower", <<MinerAddress(b), TipsetKey(pos)>>)),
       identity(Request("Filecoin.StateMinerDeadlines", <<MinerAddress(b), TipsetKey(pos)>>)),
       identity(Request("Filecoin.StateMinerProvingDeadline", <<MinerAddress(b), TipsetKey(pos)>>)),
       identity(Request("Filecoin.StateMinerAvailableBalance", <<MinerAddress(b), TipsetKey(pos)>>)),
       identity(Request("Filecoin.StateMinerFaults", <<MinerAddress(b), TipsetKey(pos)>>)),
       identity(Request("Filecoin.MinerGetBaseInfo",
                        <<MinerAddress(b), Epoch(store, pos), TipsetKey(pos)>>)),
       identity(Request("Filecoin.StateMinerRecoveries", <<MinerAddress(b), TipsetKey(pos)>>)),
       identity(Request("Filecoin.StateMinerSectorCount", <<MinerAddress(b), TipsetKey(pos)>>)) >>

\* the first loop over the blocks of a tipset, from block b on
RECURSIVE block_loop(_, _, _, _)
block_loop(store, pos, b, acc) ==
    IF b > Len(store.chain[pos].blocks) \/ acc.err /= "" THEN acc
    ELSE LET block == store.chain[pos].blocks[b]
             head == Push(acc,
                 << identity(Request("Filecoin.ChainGetBlockMessages", <<BlockCid(pos, b)>>)),
                    identity(Request("Filecoin.ChainGetParentMessages", <<BlockCid(pos, b)>>)),
                    identity(Request("Filecoin.ChainGetParentReceipts", <<BlockCid(pos, b)>>)),
                    identity(Request("Filecoin.StateMinerActiveSectors",
                                     <<MinerAddress(b), TipsetKey(1)>>)) >>)
         IN IF Fails(store, "block_messages", pos) THEN Abort(head, "block messages")
            ELSE LET after_bls == message_loop(store, pos, block.bls, TRUE, head)
                     after_secp == message_loop(store, pos, block.secp, FALSE, after_bls)
                 IN IF after_secp.err /= "" THEN after_secp
                    ELSE block_loop(store, pos, b + 1,
                                    Push(after_secp, miner_tests(store, pos, b)))

\* the second loop over the blocks of a tipset: StateCall for every message
RECURSIVE state_call_tests(_, _, _)
state_call_tests(store, pos, b) ==
    IF b > Len(store.chain[pos].blocks) THEN <<>>
    ELSE LET block == store.chain[pos].blocks[b]
         IN [k \in 1..Len(block.secp) |->
                identity(Request("Filecoin.StateCall", <<Message(block.secp[k]), TipsetKey(1)>>))]
            \o [k \in 1..Len(block.bls) |->
                identity(Request("Filecoin.StateCall", <<Message(block.bls[k]), TipsetKey(1)>>))]
            \o state_call_tests(store, pos, b + 1)

\* mutant: a test for every deal of the tipset
deal_tests_all(store, pos) ==
    [d \in 1..store.chain[pos].deals |->
       identity(Request("Filecoin.StateMarketStorageDeal", <<d, TipsetKey(pos)>>))]

\* deals.into_iter().take(5): a test for each of the first five deals
deal_tests(store, pos) ==
    LET deals == store.chain[pos].deals
        taken == IF deals < 5 THEN deals ELSE 5
    IN [d \in 1..taken |->
          identity(Request("Filecoin.StateMarketStorageDeal", <<d, TipsetKey(pos)>>))]

\* the body of the loop over the tipsets, for the tipset at pos
tipset_body(store, pos, acc) ==
    LET start == Push(acc, << identity(Request("Filecoin.ChainGetMessagesInTipset",
                                               <<TipsetKey(pos)>>)) >>)
        blocks == block_loop(store, pos, 1, start)
    IN IF blocks.err /= "" THEN blocks
       ELSE LET supply == Push(blocks,
                    << identity(Request("Filecoin.StateCirculatingSupply", <<TipsetKey(pos)>>)),
                       identity(Request("Filecoin.StateVMCirculatingSupplyInternal",
                                        <<TipsetKey(pos)>>)) >>)
                calls == Push(supply, state_call_tests(store, pos, 1))
            IN IF Fails(store, "state_tree", pos) THEN Abort(calls, "state tree")
               ELSE IF Fails(store, "market_actor", pos)
                    THEN Abort(calls, "Market actor not found")
               ELSE IF Fails(store, "proposals", pos) THEN Abort(calls, "proposals")
               ELSE Push(calls, deal_tests(store, pos))

\* mutant: the walk takes one tipset more than n_tipsets
RECURSIVE tipset_loop_one_more(_, _, _, _)
tipset_loop_one_more(store, n_tipsets, pos, acc) ==
    IF pos > n_tipsets + 1 \/ pos > Len(store.chain) \/ acc.err /= "" THEN acc
    ELSE tipset_loop_one_more(store, n_tipsets, pos + 1, tipset_body(store, pos, acc))

\* shared_tipset.chain(&store).take(n_tipsets), from the tipset at pos on
RECURSIVE tipset_loop(_, _, _, _)
tipset_loop(store, n_tipsets, pos, acc) ==
    IF pos > n_tipsets \/ pos > Len(store.chain) \/ acc.err /= "" THEN acc
    ELSE tipset_loop(store, n_tipsets, pos + 1, tipset_body(store, pos, acc))

\* Result<Vec<RpcTest>>: the tests, or the error and no test
snapshot_tests(store, n_tipsets) ==
    IF Fails(store, "heaviest_tipset", 0)
    THEN [ok |-> FALSE, error |-> "heaviest tipset"]
    ELSE LET acc == tipset_loop(store, n_tipsets, 1,
                        [tests |-> root_tests(store), seen |-> {}, err |-> ""])
         IN IF acc.err /= "" THEN [ok |-> FALSE, error |-> acc.err]
            ELSE [ok |-> TRUE, tests |-> acc.tests]

----------------------------------------------------------------------------
(* Method names are sequences of characters, so that str::contains and the *)
(* order of sort_by_key are computed on them.                              *)

Methods == {<<"a">>, <<"a", "b">>}

CharRank(c) == CASE c = "a" -> 1 [] c = "b" -> 2 [] OTHER -> 0

RECURSIVE StrLess(_, _)
StrLess(x, y) ==
    IF y = <<>> THEN FALSE
    ELSE IF x = <<>> THEN TRUE
    ELSE IF CharRank(Head(x)) /= CharRank(Head(y))
         THEN CharRank(Head(x)) < CharRank(Head(y))
         ELSE StrLess(Tail(x), Tail(y))

\* str::contains
contains(entry, a) ==
    \E i \in 0..(Len(entry) - Len(a)) : SubSeq(entry, i + 1, i + Len(a)) = a

----------------------------------------------------------------------------
(* FilterList *)

FilterList_default == [allow |-> <<>>, reject |-> <<>>]

allow(list, entry) == [list EXCEPT !.allow = Append(@, entry)]

\* mutant: an allow rule that matches wins over the reject rules
authorize_allow_wins(list, entry) ==
    \/ \E k \in 1..Len(list.allow) : contains(entry, list.allow[k])
    \/ ~\E k \in 1..Len(list.reject) : contains(entry, list.reject[k])

authorize(list, entry) ==
    /\ \/ list.allow = <<>>
       \/ \E k \in 1..Len(list.allow) : contains(entry, list.allow[k])
    /\ ~\E k \in 1..Len(list.reject) : contains(entry, list.reject[k])

\* Option<PathBuf> of the filter file: absent, or the lines of the file
NoFile == [present |-> FALSE]

SomeFile(lines) == [present |-> TRUE, lines |-> lines]

\* str::trim: white space is removed at both ends
RECURSIVE trim_start(_)
trim_start(line) ==
    IF line /= <<>> /\ Head(line) = " " THEN trim_start(Tail(line)) ELSE line

RECURSIVE trim_end(_)
trim_end(line) ==
    IF line /= <<>> /\ line[Len(line)] = " "
    THEN trim_end(SubSeq(line, 1, Len(line) - 1))
    ELSE line

trim(line) == trim_end(trim_start(line))

starts_with(line, c) == line /= <<>> /\ Head(line) = c

\* str::trim_start_matches('!'): every leading '!' is removed
RECURSIVE trim_start_matches_bang(_)
trim_start_matches_bang(entry) ==
    IF starts_with(entry, "!") THEN trim_start_matches_bang(Tail(entry)) ELSE entry

\* mutant: the lines are not trimmed
create_allow_reject_list_no_trim(file_lines) ==
    LET IsRule(line) == line /= <<>> /\ ~starts_with(line, "#")
        IsReject(line) == starts_with(line, "!")
        IsAllow(line) == ~starts_with(line, "!")
        kept == SelectSeq(file_lines, IsRule)
        reject == SelectSeq(kept, IsReject)
        allowed == SelectSeq(kept, IsAllow)
    IN <<allowed,
         [k \in 1..Len(reject) |-> trim_start_matches_bang(reject[k])]>>

\* FilterList::create_allow_reject_list on the lines of the file: (allow, reject)
create_allow_reject_list(file_lines) ==
    LET trimmed == [k \in 1..Len(file_lines) |-> trim(file_lines[k])]
        IsRule(line) == line /= <<>> /\ ~starts_with(line, "#")
        IsReject(line) == starts_with(line, "!")
        IsAllow(line) == ~starts_with(line, "!")
        kept == SelectSeq(trimmed, IsRule)
        reject == SelectSeq(kept, IsReject)
        allowed == SelectSeq(kept, IsAllow)
    IN <<allowed,
         [k \in 1..Len(reject) |-> trim_start_matches_bang(reject[k])]>>

new_from_file(file_lines) ==
    LET lists == create_allow_reject_list(file_lines)
    IN [allow |-> lists[1], reject |-> lists[2]]

\* the filter list built at the start of run_tests
\* mutant: the inline filter is added to the rules of the file
filter_list_also_inline(cfg) ==
    IF cfg.filter_file.present
    THEN allow(new_from_file(cfg.filter_file.lines), cfg.filter)
    ELSE allow(FilterList_default, cfg.filter)

filter_list(cfg) ==
    IF cfg.filter_file.present
    THEN new_from_file(cfg.filter_file.lines)
    ELSE allow(FilterList_default, cfg.filter)

----------------------------------------------------------------------------
(* run_tests: the scheduling loop *)

RunIgnored == {"Default", "IgnoredOnly", "All"}

\* mutant: ignored tests are not skipped in mode Default
skipped_runs_ignored(cfg, test) ==
    \/ cfg.run_ignored = "IgnoredOnly" /\ test.ignore = None
    \/ ~authorize(filter_list(cfg), test.method_name)

\* mutant: mode IgnoredOnly skips the ignored tests as well
skipped_ignored_only_all(cfg, test) ==
    \/ cfg.run_ignored = "Default" /\ test.ignore /= None
    \/ cfg.run_ignored = "IgnoredOnly"
    \/ ~authorize(filter_list(cfg), test.method_name)

\* the three `continue` of the scheduling loop
skipped(cfg, test) ==
    \/ cfg.run_ignored = "Default" /\ test.ignore /= None
    \/ cfg.run_ignored = "IgnoredOnly" /\ test.ignore = None
    \/ ~authorize(filter_list(cfg), test.method_name)

\* a response slot of a task before the call has returned
NoResponse == [pending |-> TRUE]

\* forest_via, lotus_via: the ApiInfo method a call was issued with
NewUnit == [state |-> "pending", forest_resp |-> NoResponse,
            lotus_resp |-> NoResponse, output |-> <<>>,
            forest_via |-> "none", lotus_via |-> "none"]

\* units whose task holds a permit: spawned and test.run not yet finished
Running == {"spawned", "forest_call", "lotus_call"}

\* `continue`: the test is not run
SkipTest ==
    /\ pc = "run"
    /\ next_test <= Len(tests)
    /\ skipped(config, tests[next_test])
    /\ units' = [units EXCEPT ![next_test].state = "skipped"]
    /\ next_test' = next_test + 1
    /\ UNCHANGED <<args, tests, config, communication, store_opened, pc,
                   permits, success_results, failed_results, printed, ret,
                   bad_blocks, sync_calls>>

\* mutant: the task is spawned without waiting for a permit
SpawnTest_no_wait ==
    /\ pc = "run"
    /\ next_test <= Len(tests)
    /\ ~skipped(config, tests[next_test])
    /\ permits' = permits - 1
    /\ units' = [units EXCEPT ![next_test].state = "spawned"]
    /\ next_test' = next_test + 1
    /\ UNCHANGED <<args, tests, config, communication, store_opened, pc,
                   success_results, failed_results, printed, ret, bad_blocks,
                   sync_calls>>

\* mutant: a cap of zero is taken as no cap
SpawnTest_zero_is_no_cap ==
    /\ pc = "run"
    /\ next_test <= Len(tests)
    /\ ~skipped(config, tests[next_test])
    /\ permits > 0 \/ config.max_concurrent_requests = 0
    /\ permits' = (IF permits > 0 THEN permits - 1 ELSE permits)
    /\ units' = [units EXCEPT ![next_test].state = "spawned"]
    /\ next_test' = next_test + 1
    /\ UNCHANGED <<args, tests, config, communication, store_opened, pc,
                   success_results, failed_results, printed, ret,
                   bad_blocks, sync_calls>>

\* acquire_owned returns a permit and the task is spawned
SpawnTest ==
    /\ pc = "run"
    /\ next_test <= Len(tests)
    /\ ~skipped(config, tests[next_test])
    /\ permits > 0
    /\ permits' = permits - 1
    /\ units' = [units EXCEPT ![next_test].state = "spawned"]
    /\ next_test' = next_test + 1
    /\ UNCHANGED <<args, tests, config, communication, store_opened, pc,
                   success_results, failed_results, printed, ret, bad_blocks,
                   sync_calls>>

----------------------------------------------------------------------------
(* The spawned task: test.run, drop(permit), output *)

\* use_websocket of compare_apis chooses ws_call or call in RpcTest::run
call_kind(protocol) == IF protocol = "Ws" THEN "ws_call" ELSE "call"

\* mutant: the two calls are issued together
CallForest_joined(i) ==
    /\ units[i].state = "spawned"
    /\ units' = [units EXCEPT ![i].state = "forest_call",
                              ![i].forest_via = call_kind(communication),
                              ![i].lotus_via = call_kind(communication)]
    /\ UNCHANGED <<args, tests, config, communication, store_opened, pc,
                   next_test, permits, success_results, failed_results,
                   printed, ret, bad_blocks, sync_calls>>

\* first poll of the task: the call to Forest is issued
CallForest(i) ==
    /\ units[i].state = "spawned"
    /\ units' = [units EXCEPT ![i].state = "forest_call",
                              ![i].forest_via = call_kind(communication)]
    /\ UNCHANGED <<args, tests, config, communication, store_opened, pc,
                   next_test, permits, success_results, failed_results,
                   printed, ret, bad_blocks, sync_calls>>

\* the call to Forest returns resp; the call to Lotus is issued
ForestReturns(i, resp) ==
    /\ units[i].state = "forest_call"
    /\ units' = [units EXCEPT ![i].state = "lotus_call",
                              ![i].forest_resp = resp,
                              ![i].lotus_via = call_kind(communication)]
    /\ UNCHANGED <<args, tests, config, communication, store_opened, pc,
                   next_test, permits, success_results, failed_results,
                   printed, ret, bad_blocks, sync_calls>>

\* mutant: the task records its own result in success_results
LotusReturns_records_result(i, resp) ==
    /\ units[i].state = "lotus_call"
    /\ LET status == run(tests[i], units[i].forest_resp, resp) IN
       /\ units' = [units EXCEPT
                      ![i].state = "completed",
                      ![i].lotus_resp = resp,
                      ![i].output = <<tests[i].method_name, status[1], status[2]>>]
       /\ success_results' = (<<tests[i].method_name, status[1], status[2]>> :> 1)
    /\ permits' = permits + 1
    /\ UNCHANGED <<args, tests, config, communication, store_opened, pc,
                   next_test, failed_results, printed, ret, bad_blocks,
                   sync_calls>>

LotusReturns_keeps_permit(i, resp) ==
    /\ units[i].state = "lotus_call"
    /\ LET status == run(tests[i], units[i].forest_resp, resp) IN
       units' = [units EXCEPT
                   ![i].state = "completed",
                   ![i].lotus_resp = resp,
                   ![i].output = <<tests[i].method_name, status[1], status[2]>>]
    /\ UNCHANGED <<args, tests, config, communication, store_opened, pc,
                   next_test, permits, success_results, failed_results,
                   printed, ret, bad_blocks, sync_calls>>

\* the call to Lotus returns resp; the match is evaluated, the permit is
\* dropped and the task completes with its output
LotusReturns(i, resp) ==
    /\ units[i].state = "lotus_call"
    /\ LET status == run(tests[i], units[i].forest_resp, resp) IN
       units' = [units EXCEPT
                   ![i].state = "completed",
                   ![i].lotus_resp = resp,
                   ![i].output = <<tests[i].method_name, status[1], status[2]>>]
    /\ permits' = permits + 1
    /\ UNCHANGED <<args, tests, config, communication, store_opened, pc,
                   next_test, success_results, failed_results, printed, ret,
                   bad_blocks, sync_calls>>

\* mutant: the permit of a task that panics is lost
TaskPanics_keeps_permit(i) ==
    /\ units[i].state \in {"forest_call", "lotus_call"}
    /\ units' = [units EXCEPT ![i].state = "panicked"]
    /\ UNCHANGED <<args, tests, config, communication, store_opened, pc,
                   next_test, permits, success_results, failed_results,
                   printed, ret, bad_blocks, sync_calls>>

\* the task panics inside test.run: its permit is dropped by the unwinding
\* and its JoinHandle resolves to a JoinError
TaskPanics(i) ==
    /\ units[i].state \in {"forest_call", "lotus_call"}
    /\ units' = [units EXCEPT ![i].state = "panicked"]
    /\ permits' = permits + 1
    /\ UNCHANGED <<args, tests, config, communication, store_opened, pc,
                   next_test, success_results, failed_results, printed, ret,
                   bad_blocks, sync_calls>>

----------------------------------------------------------------------------
(* run_tests: consuming the completions, the result maps and the table *)

EmptyMap == <<>>

entry_insert_one(map, key) ==
    IF key \in DOMAIN map
    THEN [map EXCEPT ![key] = 1]
    ELSE map @@ (key :> 1)

\* entry(key).and_modify(|v| *v += 1).or_insert(1)
entry_increment(map, key) ==
    IF key \in DOMAIN map
    THEN [map EXCEPT ![key] = @ + 1]
    ELSE map @@ (key :> 1)

\* mutant: only the Forest status is looked at
is_success_forest_only(forest_status, lotus_status) ==
    forest_status = "Valid" \/ forest_status = "Timeout"

\* the condition that sends a result to success_results
is_success(forest_status, lotus_status) ==
    \/ forest_status = "Valid" /\ lotus_status = "Valid"
    \/ forest_status = "Timeout" /\ lotus_status = "Timeout"

\* derived Ord of ((&str, EndpointStatus, EndpointStatus), u32)
RowLess(x, y) ==
    IF x[1][1] /= y[1][1] THEN StrLess(x[1][1], y[1][1])
    ELSE IF x[1][2] /= y[1][2] THEN StatusRank(x[1][2]) < StatusRank(y[1][2])
    ELSE IF x[1][3] /= y[1][3] THEN StatusRank(x[1][3]) < StatusRank(y[1][3])
    ELSE x[2] < y[2]

\* Vec::sort of the collected rows
RECURSIVE sort(_)
sort(rows) ==
    IF rows = {} THEN <<>>
    ELSE LET least == CHOOSE x \in rows : \A y \in rows \ {x} : RowLess(x, y)
         IN <<least>> \o sort(rows \ {least})

format_as_markdown_always_count(results) ==
    [r \in 1..Len(results) |->
        [method |-> <<results[r][1][1], results[r][2]>>,
         forest |-> results[r][1][2],
         lotus |-> results[r][1][3]]]

format_as_markdown(results) ==
    [r \in 1..Len(results) |->
        LET method == results[r][1][1]
            n == results[r][2]
        IN [method |-> IF n > 1 THEN <<method, n>> ELSE <<method>>,
            forest |-> results[r][1][2],
            lotus |-> results[r][1][3]]]

\* mutant: the failed results are not merged into the table
print_test_results_success_only(success, failed) ==
    format_as_markdown(sort({<<key, success[key]>> : key \in DOMAIN success}))

print_test_results(success, failed) ==
    LET combined_results ==
            [key \in DOMAIN success \cup DOMAIN failed |->
                IF key \in DOMAIN failed THEN failed[key] ELSE success[key]]
        results == sort({<<key, combined_results[key]>> : key \in DOMAIN combined_results})
    IN format_as_markdown(results)

\* the code after the consuming loop: print the table and return
Finish(success, failed) ==
    /\ printed' = Append(printed, print_test_results(success, failed))
    /\ ret' = IF DOMAIN failed = {} THEN "Ok" ELSE "Some tests failed"
    /\ pc' = "done"

\* JoinHandles still in `futures`
InFutures(us) ==
    {i \in DOMAIN us : us[i].state \in Running \cup {"completed", "panicked"}}

loop_ends_any_failure(cfg, failed, us) ==
    \/ DOMAIN failed /= {}
    \/ InFutures(us) = {}

\* mutant: fail-fast breaks the loop at the second kind of failure
loop_ends_second_failure(cfg, failed, us) ==
    \/ Cardinality(DOMAIN failed) >= 2 /\ cfg.fail_fast
    \/ InFutures(us) = {}

\* mutant: fail-fast is not looked at
loop_ends_no_fail_fast(cfg, failed, us) == InFutures(us) = {}

\* the while loop ends after an iteration: `break` on fail-fast, or
\* futures.next() yields None because no JoinHandle is left
loop_ends(cfg, failed, us) ==
    \/ DOMAIN failed /= {} /\ cfg.fail_fast
    \/ InFutures(us) = {}

\* mutant: a completion is consumed while tests are still being scheduled
Consume_during_scheduling(i) ==
    /\ pc = "run"
    /\ units[i].state = "completed"
    /\ LET result_entry == units[i].output
           success == IF is_success(result_entry[2], result_entry[3])
                      THEN entry_increment(success_results, result_entry)
                      ELSE success_results
           failed == IF is_success(result_entry[2], result_entry[3])
                     THEN failed_results
                     ELSE entry_increment(failed_results, result_entry)
           us == [units EXCEPT ![i].state = "consumed"]
       IN /\ success_results' = success
          /\ failed_results' = failed
          /\ units' = us
          /\ IF loop_ends(config, failed, us)
             THEN Finish(success, failed)
             ELSE UNCHANGED <<pc, printed, ret>>
    /\ UNCHANGED <<args, tests, config, communication, store_opened,
                   next_test, permits, bad_blocks, sync_calls>>

\* futures.next() yields the output of task i: one iteration of the while
\* loop, followed by what the loop does next without waiting
Consume(i) ==
    /\ pc = "run"
    /\ next_test > Len(tests)
    /\ units[i].state = "completed"
    /\ LET result_entry == units[i].output
           success == IF is_success(result_entry[2], result_entry[3])
                      THEN entry_increment(success_results, result_entry)
                      ELSE success_results
           failed == IF is_success(result_entry[2], result_entry[3])
                     THEN failed_results
                     ELSE entry_increment(failed_results, result_entry)
           us == [units EXCEPT ![i].state = "consumed"]
       IN /\ success_results' = success
          /\ failed_results' = failed
          /\ units' = us
          /\ IF loop_ends(config, failed, us)
             THEN Finish(success, failed)
             ELSE UNCHANGED <<pc, printed, ret>>
    /\ UNCHANGED <<args, tests, config, communication, store_opened,
                   next_test, permits, bad_blocks, sync_calls>>

\* mutant: a join error is passed over and the loop goes on
ConsumeJoinError_continues(i) ==
    /\ pc = "run"
    /\ next_test > Len(tests)
    /\ units[i].state = "panicked"
    /\ LET us == [units EXCEPT ![i].state = "join_error"]
       IN /\ units' = us
          /\ IF InFutures(us) = {}
             THEN Finish(success_results, failed_results)
             ELSE UNCHANGED <<pc, printed, ret>>
    /\ UNCHANGED <<args, tests, config, communication, store_opened,
                   next_test, permits, success_results, failed_results,
                   bad_blocks, sync_calls>>

\* futures.next() yields Some(Err(JoinError)): the while-let pattern does not
\* match and the loop ends
ConsumeJoinError(i) ==
    /\ pc = "run"
    /\ next_test > Len(tests)
    /\ units[i].state = "panicked"
    /\ units' = [units EXCEPT ![i].state = "join_error"]
    /\ Finish(success_results, failed_results)
    /\ UNCHANGED <<args, tests, config, communication, store_opened,
                   next_test, permits, success_results, failed_results,
                   bad_blocks, sync_calls>>

\* no task was spawned: futures.next() yields None at once
ConsumeNone ==
    /\ pc = "run"
    /\ next_test > Len(tests)
    /\ \A i \in DOMAIN units : units[i].state = "skipped"
    /\ Finish(success_results, failed_results)
    /\ UNCHANGED <<args, tests, config, communication, store_opened,
                   next_test, permits, units, success_results, failed_results,
                   bad_blocks, sync_calls>>

----------------------------------------------------------------------------
(* compare_apis: transport, catalogue, run_tests.  A multiaddr is the      *)
(* sequence of the tags of its protocols.                                  *)

\* Multiaddr::pop().map(|p| p.tag())
pop_tag(multiaddr) == IF multiaddr = <<>> THEN None ELSE multiaddr[Len(multiaddr)]

\* CommunicationProtocol::try_from(&str)
try_into(tag) ==
    IF tag = "http" THEN [ok |-> TRUE, value |-> "Http"]
    ELSE IF tag = "ws" THEN [ok |-> TRUE, value |-> "Ws"]
    ELSE [ok |-> FALSE, error |-> "unsupported protocol"]

derive_protocol_any_pair(forest, lotus) ==
    LET a == pop_tag(forest)
        b == pop_tag(lotus)
    IN IF a /= None /\ b /= None THEN try_into(a)
       ELSE [ok |-> FALSE, error |-> "communication protocols mismatch"]

derive_protocol(forest, lotus) ==
    LET a == pop_tag(forest)
        b == pop_tag(lotus)
    IN IF a /= None /\ b /= None /\ a = b THEN try_into(a)
       ELSE [ok |-> FALSE, error |-> "communication protocols mismatch"]

websocket_tests ==
    << [method_name |-> <<"b">>, kind |-> "identity", ignore |-> "Not implemented yet"] >>

\* mutant: a sort that puts a test before the tests of the same name
RECURSIVE sort_by_key_ties_reversed(_)
sort_by_key_ties_reversed(ts) ==
    IF ts = <<>> THEN <<>>
    ELSE LET rest == sort_by_key_ties_reversed(SubSeq(ts, 1, Len(ts) - 1))
             last == ts[Len(ts)]
             k == Cardinality({j \in 1..Len(rest) :
                                 StrLess(rest[j].method_name, last.method_name)})
         IN SubSeq(rest, 1, k) \o <<last>> \o SubSeq(rest, k + 1, Len(rest))

\* Vec::sort_by_key on the method name: a stable sort
RECURSIVE sort_by_key(_)
sort_by_key(ts) ==
    IF ts = <<>> THEN <<>>
    ELSE LET rest == sort_by_key(SubSeq(ts, 1, Len(ts) - 1))
             last == ts[Len(ts)]
             k == Cardinality({j \in 1..Len(rest) :
                                 ~StrLess(last.method_name, rest[j].method_name)})
         IN SubSeq(rest, 1, k) \o <<last>> \o SubSeq(rest, k + 1, Len(rest))

\* ManyCar::try_from(snapshot_files) and snapshot_tests on it
snapshot_catalogue(snapshot_files, n_tipsets) ==
    IF snapshot_files = <<>> THEN [ok |-> TRUE, tests |-> <<>>]
    ELSE IF Fails(snapshot_files[1], "open", 0) THEN [ok |-> FALSE, error |-> "open"]
    ELSE snapshot_tests(snapshot_files[1], n_tipsets)

\* compare_apis returns the error of a `?`
Bail(error, protocol, opened) ==
    /\ pc' = "done"
    /\ ret' = error
    /\ communication' = protocol
    /\ store_opened' = opened
    /\ UNCHANGED <<args, tests, config, next_test, permits, units,
                   success_results, failed_results, printed, bad_blocks,
                   sync_calls>>

\* compare_apis up to the call of run_tests, with the catalogue it built
StartRun(protocol, catalogue) ==
    /\ communication' = protocol
    /\ store_opened' = (args.snapshot_files /= <<>>)
    /\ tests' = sort_by_key(catalogue)
    /\ units' = [i \in DOMAIN tests' |-> NewUnit]
    /\ pc' = "run"
    /\ UNCHANGED <<args, config, next_test, permits, success_results,
                   failed_results, printed, ret, bad_blocks, sync_calls>>

CompareApis_ignores_archive_errors ==
    /\ pc = "compare"
    /\ LET derived == derive_protocol(args.forest, args.lotus)
           snapshot == snapshot_catalogue(args.snapshot_files, config.n_tipsets)
       IN IF ~derived.ok THEN Bail(derived.error, "none", FALSE)
          ELSE StartRun(derived.value,
                        args.static_tests
                        \o (IF snapshot.ok THEN snapshot.tests ELSE <<>>)
                        \o (IF derived.value = "Ws" THEN websocket_tests ELSE <<>>))

CompareApis_ignores_protocol_errors ==
    /\ pc = "compare"
    /\ LET derived == derive_protocol(args.forest, args.lotus)
           snapshot == snapshot_catalogue(args.snapshot_files, config.n_tipsets)
       IN IF ~snapshot.ok THEN Bail(snapshot.error, "Http", TRUE)
          ELSE StartRun(IF derived.ok THEN derived.value ELSE "Http",
                        args.static_tests \o snapshot.tests)

CompareApis ==
    /\ pc = "compare"
    /\ LET derived == derive_protocol(args.forest, args.lotus)
           snapshot == snapshot_catalogue(args.snapshot_files, config.n_tipsets)
       IN IF ~derived.ok THEN Bail(derived.error, "none", FALSE)
          ELSE IF ~snapshot.ok THEN Bail(snapshot.error, derived.value, TRUE)
          ELSE StartRun(derived.value,
                        args.static_tests \o snapshot.tests
                        \o (IF derived.value = "Ws" THEN websocket_tests ELSE <<>>))

\* snapshot_tests alone, on the first archive and config.n_tipsets
SnapshotTests ==
    /\ pc = "snapshot_tests"
    /\ LET result == snapshot_tests(args.snapshot_files[1], config.n_tipsets)
       IN /\ tests' = (IF result.ok THEN result.tests ELSE <<>>)
          /\ ret' = (IF result.ok THEN "Ok" ELSE result.error)
    /\ pc' = "done"
    /\ UNCHANGED <<args, config, communication, store_opened, next_test,
                   permits, units, success_results, failed_results, printed,
                   bad_blocks, sync_calls>>

\* the body of the while loop on a list of outputs: the two maps it leaves
RECURSIVE consume_all(_, _)
consume_all(outputs, maps) ==
    IF outputs = <<>> THEN maps
    ELSE LET result_entry == Head(outputs)
         IN consume_all(Tail(outputs),
                IF is_success(result_entry[2], result_entry[3])
                THEN [maps EXCEPT !.success = entry_increment(@, result_entry)]
                ELSE [maps EXCEPT !.failed = entry_increment(@, result_entry)])

\* print_test_results and the return, on the maps as they are
PrintResults ==
    /\ pc = "print"
    /\ Finish(success_results, failed_results)
    /\ UNCHANGED <<args, tests, config, communication, store_opened,
                   next_test, permits, units, success_results, failed_results,
                   bad_blocks, sync_calls>>

----------------------------------------------------------------------------
(* Specifications *)

\* Vec<RpcTest> of length n, as compare_apis leaves it: sorted by method name
Sorted(ts) ==
    \A i, j \in DOMAIN ts : i < j => ~StrLess(ts[j].method_name, ts[i].method_name)

IgnoreValues == {None, "Not implemented yet"}

Catalogues(kinds, maxlen) ==
    UNION {{ts \in [1..n -> [method_name : Methods, kind : kinds,
                             ignore : IgnoreValues]] : Sorted(ts)}
           : n \in 0..maxlen}

Filters == {<<>>, <<"b">>}

\* default_value_t of n_tipsets
DefaultTipsets == 20

----------------------------------------------------------------------------
(* The sync API (src/rpc/sync_api.rs): sync_check_bad and sync_mark_bad on *)
(* the cache of bad blocks of the RPC state.                               *)

\* BadBlockCache::default(): no block is marked bad
EmptyCache == <<>>

\* BadBlockCache::peek: the reason stored for the CID, if any
peek(cache, cid) == IF cid \in DOMAIN cache THEN cache[cid] ELSE None

\* BadBlockCache::put: the reason is stored for the CID
put(cache, cid, reason) ==
    [c \in DOMAIN cache \cup {cid} |-> IF c = cid THEN reason ELSE cache[c]]

\* Option<String>::unwrap_or_default
unwrap_or_default(option) == IF option = None THEN "" ELSE option

\* params.parse(): a tuple of one CID, or an error
Parsed(cid) == [parsed |-> TRUE, cid |-> cid]

Unparsed == [parsed |-> FALSE, cid |-> 0]

\* Result<_, JsonRpcError> of a handler of the sync API
Reply(value) == [ok |-> TRUE, value |-> value]

InvalidParams == [ok |-> FALSE, value |-> "invalid params"]

MarkedReason == "Marked bad manually through RPC API"

\* mutant: the reason of whichever block was marked is returned
sync_check_bad_any_block(params, cache) ==
    IF ~params.parsed THEN InvalidParams
    ELSE Reply(IF DOMAIN cache = {} THEN "" ELSE MarkedReason)

sync_check_bad(params, cache) ==
    IF ~params.parsed THEN InvalidParams
    ELSE Reply(unwrap_or_default(peek(cache, params.cid)))

\* the reply of sync_mark_bad and the cache it leaves
sync_mark_bad(params, cache) ==
    IF ~params.parsed THEN [reply |-> InvalidParams, cache |-> cache]
    ELSE [reply |-> Reply(""), cache |-> put(cache, params.cid, MarkedReason)]

SyncCall(method, params, reply) ==
    [method |-> method, params |-> params, reply |-> reply]

\* a call of Filecoin.SyncCheckBad is served
SyncCheckBad(params) ==
    /\ pc = "serve"
    /\ Len(sync_calls) < MaxCalls
    /\ sync_calls' = Append(sync_calls,
                            SyncCall("sync_check_bad", params,
                                     sync_check_bad(params, bad_blocks)))
    /\ UNCHANGED <<args, tests, config, communication, store_opened, pc,
                   next_test, permits, units, success_results,
                   failed_results, printed, ret, bad_blocks>>

\* a call of Filecoin.SyncMarkBad is served
SyncMarkBad(params) ==
    /\ pc = "serve"
    /\ Len(sync_calls) < MaxCalls
    /\ LET served == sync_mark_bad(params, bad_blocks)
       IN /\ bad_blocks' = served.cache
          /\ sync_calls' = Append(sync_calls,
                                  SyncCall("sync_mark_bad", params, served.reply))
    /\ UNCHANGED <<args, tests, config, communication, store_opened, pc,
                   next_test, permits, units, success_results,
                   failed_results, printed, ret>>

\* arguments of a run whose catalogue is given directly
DirectArgs == [forest |-> <<"tcp", "http">>, lotus |-> <<"tcp", "http">>,
               snapshot_files |-> <<>>, static_tests |-> <<>>]

InitConf(catalogues, configs) ==
    /\ args = DirectArgs
    /\ tests \in catalogues
    /\ config \in configs
    /\ communication = "Http"
    /\ store_opened = FALSE
    /\ pc = "run"
    /\ next_test = 1
    /\ permits = config.max_concurrent_requests
    /\ units = [i \in DOMAIN tests |-> NewUnit]
    /\ success_results = EmptyMap
    /\ failed_results = EmptyMap
    /\ printed = <<>>
    /\ ret = "none"
    /\ bad_blocks = EmptyCache
    /\ sync_calls = <<>>

InitWith(catalogues, max_permits) ==
    InitConf(catalogues,
             [filter : Filters, filter_file : {NoFile}, fail_fast : BOOLEAN,
              run_ignored : RunIgnored, n_tipsets : {DefaultTipsets},
              max_concurrent_requests : 0..max_permits])

NextWith(responses) ==
    \/ SkipTest
    \/ SpawnTest
    \/ \E i \in DOMAIN units : CallForest(i)
    \/ \E i \in DOMAIN units : \E resp \in responses : ForestReturns(i, resp)
    \/ \E i \in DOMAIN units : \E resp \in responses : LotusReturns(i, resp)
    \/ \E i \in DOMAIN units : TaskPanics(i)
    \/ \E i \in DOMAIN units : Consume(i)
    \/ \E i \in DOMAIN units : ConsumeJoinError(i)
    \/ ConsumeNone

\* the executor: a catalogue of up to MaxTests tests, a few responses
TimeoutError == [code |-> [tag |-> "ServerError", n |-> 0],
                 message |-> "Operation timed out"]

ExecResponses == {Ok("j1"), Err(TimeoutError)}

Init == InitWith(Catalogues({"identity"}, MaxTests), MaxPermits)

Next == NextWith(ExecResponses)

Spec == Init /\ [][Next]_vars

\* a step of run_tests: its scheduling loop or its consuming loop
RunTestsStep ==
    \/ SkipTest
    \/ SpawnTest
    \/ \E i \in DOMAIN units : Consume(i) \/ ConsumeJoinError(i)
    \/ ConsumeNone

\* a step of the task spawned for the test i: it issues a call, or the call
\* it waits for returns
TaskStep(i) ==
    /\ i \in DOMAIN units
    /\ \/ CallForest(i)
       \/ \E resp \in ExecResponses : ForestReturns(i, resp)
       \/ \E resp \in ExecResponses : LotusReturns(i, resp)

\* the executor under a fair runtime: run_tests and every spawned task are
\* polled again and again, and every call to an endpoint returns
Fairness ==
    /\ WF_vars(RunTestsStep)
    /\ \A i \in 1..MaxTests : WF_vars(TaskStep(i))

\* tests of one method, ignored or not
LiveCatalogues ==
    UNION {[1..n -> [method_name : {<<"a">>}, kind : {"identity"},
                     ignore : IgnoreValues]] : n \in 0..MaxTests}

\* the default filter and mode, every cap and both values of fail-fast
InitLive ==
    InitConf(LiveCatalogues,
             [filter : {<<>>}, filter_file : {NoFile}, fail_fast : BOOLEAN,
              run_ignored : {"Default"}, n_tipsets : {DefaultTipsets},
              max_concurrent_requests : 0..MaxPermits])

NextLive == NextWith(ExecResponses)

SpecLive == InitLive /\ [][NextLive]_vars /\ Fairness

\* one test run over either transport
InitCall ==
    /\ args = DirectArgs
    /\ tests \in Catalogues({"identity"}, 1)
    /\ config \in [filter : {<<>>}, filter_file : {NoFile}, fail_fast : BOOLEAN,
                    run_ignored : RunIgnored, n_tipsets : {DefaultTipsets},
                    max_concurrent_requests : {1}]
    /\ communication \in {"Http", "Ws"}
    /\ store_opened = FALSE
    /\ pc = "run"
    /\ next_test = 1
    /\ permits = config.max_concurrent_requests
    /\ units = [i \in DOMAIN tests |-> NewUnit]
    /\ success_results = EmptyMap
    /\ failed_results = EmptyMap
    /\ printed = <<>>
    /\ ret = "none"
    /\ bad_blocks = EmptyCache
    /\ sync_calls = <<>>

NextCall == NextWith(ExecResponses)

SpecCall == InitCall /\ [][NextCall]_vars

\* RpcTest::run on every pair of responses: one test of any kind
AllResponses == {Ok(v) : v \in JsonValues} \cup {Err(e) : e \in JsonRpcErrors}

InitRun == InitWith(Catalogues(Kinds, 1), 1)

NextRun == NextWith(AllResponses)

SpecRun == InitRun /\ [][NextRun]_vars

\* the filter list: one test, every filter file of up to MaxLines lines
Lines ==
    {<<>>, <<" ">>, <<"#", "a">>, <<"a">>, <<"a", "b">>, <<" ", "b", " ">>,
     <<"!", "a">>, <<"!", "b">>, <<"!", "!", "b">>, <<" ", "!", "b">>,
     <<"!", " ", "b">>, <<"!">>}

Files == UNION {[1..n -> Lines] : n \in 0..MaxLines}

\* inline filters of the filter runs: the default, a substring of a method
\* name, and the same substring in the other case
InlineFilters == Filters \cup {<<"B">>}

InitFilter ==
    InitConf(Catalogues({"identity"}, 1),
             [filter : InlineFilters,
              filter_file : {NoFile} \cup {SomeFile(lines) : lines \in Files},
              fail_fast : {FALSE}, run_ignored : RunIgnored,
              n_tipsets : {DefaultTipsets}, max_concurrent_requests : {1}])

NextFilter == NextWith(ExecResponses)

SpecFilter == InitFilter /\ [][NextFilter]_vars

\* chain archives: tipsets of one or two blocks, with repeated messages
Block(bls, secp) == [bls |-> bls, secp |-> secp]

Tipsets ==
    { [blocks |-> << Block(<<1>>, <<>>) >>, deals |-> 0],
      [blocks |-> << Block(<<1, 2>>, <<3>>) >>, deals |-> 2],
      [blocks |-> << Block(<<1>>, <<2>>), Block(<<1>>, <<2>>) >>, deals |-> 6],
      [blocks |-> << Block(<<>>, <<>>) >>, deals |-> 6],
      [blocks |-> << Block(<<2>>, <<1>>) >>, deals |-> 5],
      [blocks |-> << Block(<<3>>, <<>>), Block(<<>>, <<3>>) >>, deals |-> 0] }

Chains == UNION {[1..n -> Tipsets] : n \in 1..MaxTipsets}

FailKinds == {"block_messages", "message_cid", "state_tree", "market_actor", "proposals"}

\* the reads of snapshot_tests that may fail, and the archive without failure
Failures ==
    {NoFail, [kind |-> "heaviest_tipset", pos |-> 0]}
    \cup [kind : FailKinds, pos : 1..MaxTipsets]

Stores == [chain : Chains, fail : Failures]

\* snapshot_tests on every archive, with n_tipsets up to past the chain
InitGen ==
    /\ args \in [forest : {<<"tcp", "http">>}, lotus : {<<"tcp", "http">>},
                  snapshot_files : {<<store>> : store \in Stores},
                  static_tests : {<<>>}]
    /\ tests = <<>>
    /\ config \in [filter : {<<>>}, filter_file : {NoFile}, fail_fast : {FALSE},
                    run_ignored : {"Default"}, n_tipsets : 0..(MaxTipsets + 1),
                    max_concurrent_requests : {1}]
    /\ communication = "Http"
    /\ store_opened = TRUE
    /\ pc = "snapshot_tests"
    /\ next_test = 1
    /\ permits = config.max_concurrent_requests
    /\ units = <<>>
    /\ success_results = EmptyMap
    /\ failed_results = EmptyMap
    /\ printed = <<>>
    /\ ret = "none"
    /\ bad_blocks = EmptyCache
    /\ sync_calls = <<>>

NextGen == SnapshotTests

SpecGen == InitGen /\ [][NextGen]_vars

\* the sync API: up to MaxCalls calls about MaxCids block CIDs
Cids == 1..MaxCids

SyncParams == {Parsed(cid) : cid \in Cids} \cup {Unparsed}

InitSync ==
    /\ args = DirectArgs
    /\ tests = <<>>
    /\ config \in [filter : {<<>>}, filter_file : {NoFile}, fail_fast : {FALSE},
                    run_ignored : {"Default"}, n_tipsets : {DefaultTipsets},
                    max_concurrent_requests : {1}]
    /\ communication = "none"
    /\ store_opened = FALSE
    /\ pc = "serve"
    /\ next_test = 1
    /\ permits = config.max_concurrent_requests
    /\ units = <<>>
    /\ success_results = EmptyMap
    /\ failed_results = EmptyMap
    /\ printed = <<>>
    /\ ret = "none"
    /\ bad_blocks = EmptyCache
    /\ sync_calls = <<>>

NextSync ==
    \/ \E params \in SyncParams : SyncCheckBad(params)
    \/ \E params \in SyncParams : SyncMarkBad(params)

SpecSync == InitSync /\ [][NextSync]_vars

\* status pairs of a result: any status but Timeout against Valid
ResultKeys ==
    {<<m, f, "Valid">> : m \in Methods, f \in EndpointStatus \ {"Timeout"}}
    \cup {<<m, "Valid", l>> : m \in Methods,
                             l \in {"MissingMethod", "InternalServerError"}}

Outputs == UNION {[1..n -> ResultKeys] : n \in 0..MaxResults}

\* print_test_results on the maps left by up to MaxResults results
InitPrint ==
    /\ args = DirectArgs
    /\ tests = <<>>
    /\ config \in [filter : {<<>>}, filter_file : {NoFile}, fail_fast : {FALSE},
                    run_ignored : {"Default"}, n_tipsets : {DefaultTipsets},
                    max_concurrent_requests : {1}]
    /\ communication = "Http"
    /\ store_opened = FALSE
    /\ pc = "print"
    /\ next_test = 1
    /\ permits = config.max_concurrent_requests
    /\ units = <<>>
    /\ \E outputs \in Outputs :
          LET maps == consume_all(outputs, [success |-> EmptyMap, failed |-> EmptyMap])
          IN success_results = maps.success /\ failed_results = maps.failed
    /\ printed = <<>>
    /\ ret = "none"
    /\ bad_blocks = EmptyCache
    /\ sync_calls = <<>>

NextPrint == PrintResults

SpecPrint == InitPrint /\ [][NextPrint]_vars

\* multiaddrs: empty, without a transport, http, ws and wss
Addrs == {<<>>, <<"tcp">>, <<"tcp", "http">>, <<"tcp", "ws">>, <<"tcp", "wss">>}

\* the static suites: a few tests in any order
StaticSuites ==
    UNION {[1..n -> [method_name : Methods, kind : {"identity"}, ignore : IgnoreValues]]
           : n \in 0..MaxTests}

\* archives of MaxTipsets tipsets with messages, one of whose reads fails
FailingStores ==
    [chain : {[pos \in 1..MaxTipsets |->
                 [blocks |-> << Block(<<1, 2>>, <<3>>) >>, deals |-> 2]]},
     fail : (Failures \ {NoFail}) \cup {[kind |-> "open", pos |-> 0]}]

\* compare_apis: every pair of addresses, no archive or a failing archive
InitCompare ==
    /\ args \in [forest : Addrs, lotus : Addrs,
                  snapshot_files : {<<>>} \cup {<<store>> : store \in FailingStores},
                  static_tests : StaticSuites]
    /\ tests = <<>>
    /\ config \in [filter : {<<>>}, filter_file : {NoFile}, fail_fast : {FALSE},
                    run_ignored : RunIgnored, n_tipsets : {MaxTipsets},
                    max_concurrent_requests : {1}]
    /\ communication = "none"
    /\ store_opened = FALSE
    /\ pc = "compare"
    /\ next_test = 1
    /\ permits = config.max_concurrent_requests
    /\ units = <<>>
    /\ success_results = EmptyMap
    /\ failed_results = EmptyMap
    /\ printed = <<>>
    /\ ret = "none"
    /\ bad_blocks = EmptyCache
    /\ sync_calls = <<>>

NextCompare == CompareApis \/ NextWith(ExecResponses)

SpecCompare == InitCompare /\ [][NextCompare]_vars

----------------------------------------------------------------------------
(* Properties *)

\* task i has finished test.run: its two responses and its output are set
Finished(i) == units[i].state \in {"completed", "consumed"}

Statuses(i) == <<units[i].output[2], units[i].output[3]>>

BothErrors(i) == ~units[i].forest_resp.ok /\ ~units[i].lotus_resp.ok

SyntaxValid(resp) == resp.ok /\ from_value(resp.value) /= None

\* the typed domain value of a syntax-valid response
Domain(resp) == from_lotus_json(from_value(resp.value))

ConsumedUnits == {i \in DOMAIN units : units[i].state = "consumed"}

\* number of consumed results equal to key
CountOf(key) == Cardinality({i \in ConsumedUnits : units[i].output = key})

ConsumedKeys == {units[i].output : i \in ConsumedUnits}

RECURSIVE SumOf(_)
SumOf(map) ==
    IF DOMAIN map = {} THEN 0
    ELSE LET k == CHOOSE x \in DOMAIN map : TRUE
         IN map[k] + SumOf([x \in DOMAIN map \ {k} |-> map[x]])

\* C1 (as stated): whenever both endpoints return errors that from_json_error
\* maps to the same status, equal or not, run returns (Valid, Valid).
C1_SameClassIsValid ==
    \A i \in DOMAIN units :
        (Finished(i) /\ BothErrors(i)
         /\ from_json_error(units[i].forest_resp.error)
              = from_json_error(units[i].lotus_resp.error))
        => Statuses(i) = <<"Valid", "Valid">>

\* C1 (amended): two equal errors (same code and message) give (Valid, Valid);
\* two unequal errors keep, each, the status from_json_error gives them, also
\* when that status is the same on both sides.
C1_EqualErrorsAreValid ==
    \A i \in DOMAIN units :
        (Finished(i) /\ BothErrors(i))
        => IF units[i].forest_resp.error = units[i].lotus_resp.error
           THEN Statuses(i) = <<"Valid", "Valid">>
           ELSE Statuses(i) = <<from_json_error(units[i].forest_resp.error),
                                from_json_error(units[i].lotus_resp.error)>>

C1_Witness ==
    \E i \in DOMAIN units :
        /\ Finished(i) /\ BothErrors(i)
        /\ units[i].forest_resp.error = units[i].lotus_resp.error
        /\ from_json_error(units[i].forest_resp.error) = "MissingMethod"

C3_ReferenceIsOracle ==
    \A i \in DOMAIN units :
        (/\ Finished(i)
         /\ SyntaxValid(units[i].forest_resp) /\ SyntaxValid(units[i].lotus_resp))
        => /\ Statuses(i)[2] = "Valid"
           /\ Statuses(i)[1] =
                IF check_semantics(tests[i], units[i].forest_resp.value,
                                   units[i].lotus_resp.value)
                THEN "Valid" ELSE "InvalidResponse"

\* the semantic check fails on two syntax-valid values
C3_Witness ==
    \E i \in DOMAIN units :
        /\ Finished(i) /\ tests[i].kind = "message_lookup"
        /\ units[i].forest_resp = Ok("j1r") /\ units[i].lotus_resp = Ok("j2")
        /\ Statuses(i) = <<"InvalidResponse", "Valid">>

\* the status of one side computed from that side's response alone
OwnStatus(resp) ==
    IF resp.ok
    THEN (IF from_value(resp.value) /= None THEN "Valid" ELSE "InvalidJSON")
    ELSE from_json_error(resp.error)

\* C4: when the responses are neither two syntax-valid values nor two errors
\* of the same class, each side's status is a function of that side's own
\* response: from_json_error of its error, or Valid / InvalidJSON as its
\* value passes the syntax check or not.
C4_SidesIndependent ==
    \A i \in DOMAIN units :
        (/\ Finished(i)
         /\ ~(SyntaxValid(units[i].forest_resp) /\ SyntaxValid(units[i].lotus_resp))
         /\ ~(BothErrors(i)
              /\ from_json_error(units[i].forest_resp.error)
                   = from_json_error(units[i].lotus_resp.error)))
        => Statuses(i) = <<OwnStatus(units[i].forest_resp),
                           OwnStatus(units[i].lotus_resp)>>

\* a malformed value on the Forest side and an error on the Lotus side
C4_Witness ==
    \E i \in DOMAIN units :
        /\ Finished(i)
        /\ units[i].forest_resp = Ok("bad") /\ ~units[i].lotus_resp.ok
        /\ Statuses(i) = <<"InvalidJSON", "MissingMethod">>

\* a key of the success map: both statuses Valid, or both Timeout
SuccessKey(key) ==
    \/ key[2] = "Valid" /\ key[3] = "Valid"
    \/ key[2] = "Timeout" /\ key[3] = "Timeout"

\* C5: every consumed result is counted exactly once, in the success map iff
\* both statuses are Valid or both are Timeout and in the failure map
\* otherwise; the two maps have no key in common.
C5_MapsPartitionConsumed ==
    /\ DOMAIN success_results \cap DOMAIN failed_results = {}
    /\ DOMAIN success_results \cup DOMAIN failed_results = ConsumedKeys
    /\ \A key \in ConsumedKeys :
          IF SuccessKey(key)
          THEN key \in DOMAIN success_results /\ success_results[key] = CountOf(key)
          ELSE key \in DOMAIN failed_results /\ failed_results[key] = CountOf(key)

\* a success and a failure have been consumed: both maps are in use
C5_Witness ==
    /\ DOMAIN success_results /= {} /\ DOMAIN failed_results /= {}
    /\ Cardinality(ConsumedUnits) = 2

\* the row of the table for a key counted n times
RowOf(key, n) ==
    [method |-> IF n > 1 THEN <<key[1], n>> ELSE <<key[1]>>,
     forest |-> key[2], lotus |-> key[3]]

\* C6: when run_tests has stopped consuming, it has printed the table exactly
\* once, with one row for every result consumed so far, and has returned Ok
\* iff the failure map is empty and "Some tests failed" otherwise; before
\* that nothing is printed.
C6_TableAndResult ==
    IF pc = "done"
    THEN /\ Len(printed) = 1
         /\ Len(printed[1]) = Cardinality(ConsumedKeys)
         /\ {printed[1][r] : r \in 1..Len(printed[1])}
              = {RowOf(key, CountOf(key)) : key \in ConsumedKeys}
         /\ ret = IF DOMAIN failed_results = {} THEN "Ok" ELSE "Some tests failed"
    ELSE printed = <<>> /\ ret = "none"

\* run_tests has returned the error after a success and a failure were counted
C6_Witness ==
    /\ pc = "done" /\ ret = "Some tests failed"
    /\ DOMAIN success_results /= {} /\ DOMAIN failed_results /= {}
    /\ Len(printed) = 1 /\ Len(printed[1]) = 2

RunningUnits == {i \in DOMAIN units : units[i].state \in Running}

\* C7: the number of tasks that were started and have not yet completed both
\* endpoint calls never exceeds max_concurrent_requests.
C7_BoundedConcurrency ==
    Cardinality(RunningUnits) <= config.max_concurrent_requests

\* the cap is reached while a further eligible test waits for a permit
C7_Witness ==
    /\ config.max_concurrent_requests >= 1
    /\ Cardinality(RunningUnits) = config.max_concurrent_requests
    /\ next_test <= Len(tests)
    /\ ~skipped(config, tests[next_test])

\* an error as the client reports a timed-out call
IsTimeoutError(err) == err.code = [tag |-> "ServerError", n |-> 0]
                       /\ err.message = "Operation timed out"

SameTimeout(i) ==
    /\ BothErrors(i)
    /\ units[i].forest_resp.error = units[i].lotus_resp.error
    /\ IsTimeoutError(units[i].forest_resp.error)

\* C8 (as stated): a consumed case whose two calls returned the same timeout
\* error is counted under the key (method, Timeout, Timeout) of the success
\* map.
C8_CountedAsTimeout ==
    \A i \in ConsumedUnits :
        SameTimeout(i)
        => <<tests[i].method_name, "Timeout", "Timeout">> \in DOMAIN success_results

\* C8 (amended): a case whose two calls returned the same timeout error
\* contributes, once its result is consumed, exactly one count, under the key
\* (method, Valid, Valid) of the success map, and no count to the failure map;
\* as long as it is not consumed it contributes no count.
C8_CountedAsValid ==
    \A i \in DOMAIN units :
        (Finished(i) /\ SameTimeout(i))
        => LET key == <<tests[i].method_name, "Valid", "Valid">> IN
           /\ units[i].output = key
           /\ key \notin DOMAIN failed_results
           /\ IF key \in DOMAIN success_results
              THEN success_results[key] = CountOf(key)
              ELSE CountOf(key) = 0
           /\ i \in ConsumedUnits => key \in DOMAIN success_results

\* the run has ended and the case that timed out on both sides was consumed
C8_Witness ==
    /\ pc = "done"
    /\ \E i \in ConsumedUnits : SameTimeout(i)

\* C9: with fail-fast, once a failing result has been counted no further
\* completion is consumed: the counts of the failure map sum to at most 1, the
\* set of consumed results and both maps no longer change, and the tasks not
\* consumed keep running (no step takes back a task's progress).
C9_FailFastStops ==
    /\ [](config.fail_fast => SumOf(failed_results) <= 1)
    /\ [][(config.fail_fast /\ DOMAIN failed_results /= {})
          => /\ pc = "done"
             /\ ConsumedUnits' = ConsumedUnits
             /\ success_results' = success_results
             /\ failed_results' = failed_results
             /\ \A i \in DOMAIN units :
                   units[i].state = "lotus_call"
                   => units'[i].state \in {"lotus_call", "completed", "panicked"}]_vars

\* fail-fast has ended the run while another task is still calling
C9_Witness ==
    /\ config.fail_fast /\ pc = "done"
    /\ SumOf(failed_results) = 1
    /\ \E i \in DOMAIN units : units[i].state = "lotus_call"

\* C10: in mode Default a test marked with ignore(reason) is never spawned:
\* no call is issued to either endpoint for it and it is not consumed, so it
\* adds to no count of either map.
C10_IgnoredNotRun ==
    \A i \in DOMAIN units :
        (config.run_ignored = "Default" /\ tests[i].ignore /= None)
        => /\ units[i].state \in {"pending", "skipped"}
           /\ units[i].forest_resp = NoResponse
           /\ units[i].lotus_resp = NoResponse
           /\ units[i].output = <<>>
           /\ SumOf(success_results) + SumOf(failed_results)
                <= Cardinality({j \in DOMAIN units : j /= i})

\* the run has ended with an ignored test skipped and another test counted
C10_Witness ==
    /\ pc = "done" /\ config.run_ignored = "Default"
    /\ \E i \in DOMAIN units : tests[i].ignore /= None /\ units[i].state = "skipped"
    /\ SumOf(success_results) + SumOf(failed_results) = 1

\* the tests the filter list authorizes
Authorized == {i \in DOMAIN tests :
                 authorize(filter_list(config), tests[i].method_name)}

\* the tests for which a task was spawned
Started == {i \in DOMAIN units : units[i].state \notin {"pending", "skipped"}}

\* C11: for one catalogue and one filter list, the tests run in mode Default
\* are the authorized tests without ignore, those run in mode IgnoredOnly are
\* the authorized tests with ignore, and those run in mode All are the
\* disjoint union of the two.
C11_ModesPartition ==
    next_test > Len(tests)
    => LET default == {i \in Authorized : tests[i].ignore = None}
           ignored == {i \in Authorized : tests[i].ignore /= None}
       IN /\ default \cap ignored = {}
          /\ config.run_ignored = "Default" => Started = default
          /\ config.run_ignored = "IgnoredOnly" => Started = ignored
          /\ config.run_ignored = "All" => Started = default \cup ignored

\* mode IgnoredOnly has run an ignored test and skipped another test
C11_Witness ==
    /\ next_test > Len(tests) /\ config.run_ignored = "IgnoredOnly"
    /\ \E i \in Started : tests[i].ignore /= None
    /\ \E i \in Authorized : tests[i].ignore = None /\ units[i].state = "skipped"

\* the rules of a list as sets
AllowRules(list) == {list.allow[k] : k \in 1..Len(list.allow)}

RejectRules(list) == {list.reject[k] : k \in 1..Len(list.reject)}

\* C12: a name is authorized iff (the allow list is empty or the name
\* contains an allow entry) and the name contains no reject entry; seen in
\* mode All, where the filter list alone decides whether a test is skipped.
C12_Authorize ==
    \A i \in DOMAIN units :
        (units[i].state /= "pending" /\ config.run_ignored = "All")
        => LET list == filter_list(config)
               name == tests[i].method_name
           IN (units[i].state /= "skipped")
              <=> /\ \/ AllowRules(list) = {}
                     \/ \E a \in AllowRules(list) : contains(name, a)
                  /\ \A r \in RejectRules(list) : ~contains(name, r)

\* a name matched by an allow entry and by a reject entry has been skipped
C12_Witness ==
    \E i \in DOMAIN units :
        /\ config.run_ignored = "All" /\ units[i].state = "skipped"
        /\ \E a \in AllowRules(filter_list(config)) : contains(tests[i].method_name, a)
        /\ \E r \in RejectRules(filter_list(config)) : contains(tests[i].method_name, r)

\* a line without the white space at its ends
Trimmed(line) ==
    LET inked == {k \in 1..Len(line) : line[k] /= " "}
    IN IF inked = {} THEN <<>>
       ELSE SubSeq(line, CHOOSE k \in inked : \A m \in inked : k <= m,
                         CHOOSE k \in inked : \A m \in inked : k >= m)

\* a line without its '!' prefix (all the '!' it starts with)
Unbanged(line) ==
    LET first == CHOOSE k \in 1..(Len(line) + 1) :
                    /\ k = Len(line) + 1 \/ line[k] /= "!"
                    /\ \A m \in 1..(k - 1) : line[m] = "!"
    IN SubSeq(line, first, Len(line))

Store == args.snapshot_files[1]

Window ==
    1..(IF config.n_tipsets < Len(Store.chain) THEN config.n_tipsets
        ELSE Len(Store.chain))

\* the places (tipset, block, BLS or not, index) of the messages of the window
Occurrences ==
    {o \in Window \X (1..2) \X BOOLEAN \X (1..2) :
        /\ o[2] <= Len(Store.chain[o[1]].blocks)
        /\ o[4] <= Len(IF o[3] THEN Store.chain[o[1]].blocks[o[2]].bls
                       ELSE Store.chain[o[1]].blocks[o[2]].secp)}

CidAt(o) ==
    IF o[3] THEN Store.chain[o[1]].blocks[o[2]].bls[o[4]]
    ELSE Store.chain[o[1]].blocks[o[2]].secp[o[4]]

WindowCids == {CidAt(o) : o \in Occurrences}

\* the generated tests of a method
TestsOf(method) == {i \in DOMAIN tests : tests[i].method_name = method}

Generated == pc = "done" /\ ret = "Ok"

\* C17: when snapshot_tests succeeds, every message CID of the visited
\* tipsets has exactly one ChainGetMessage test and one StateWaitMsg test,
\* however often and in whichever kind it occurs, and the number of
\* ChainGetMessage tests is the number of distinct CIDs of the window.
C17_OncePerCid ==
    Generated
    => /\ \A c \in WindowCids :
            /\ Cardinality({i \in TestsOf("Filecoin.ChainGetMessage") :
                              tests[i].params = <<c>>}) = 1
            /\ Cardinality({i \in TestsOf("Filecoin.StateWaitMsg") :
                              tests[i].params = <<c, 0>>}) = 1
       /\ Cardinality(TestsOf("Filecoin.ChainGetMessage")) = Cardinality(WindowCids)

\* tests were generated from a window where one CID occurs as a BLS message
\* and as a Secp256k1 message, in different tipsets
C17_Witness ==
    /\ Generated
    /\ \E o1, o2 \in Occurrences :
          CidAt(o1) = CidAt(o2) /\ o1[3] /\ ~o2[3] /\ o1[1] /= o2[1]
    /\ Cardinality(WindowCids) = 3

\* the last tag of a multiaddr, if any
LastTag(multiaddr) ==
    IF Len(multiaddr) = 0 THEN None ELSE multiaddr[Len(multiaddr)]

\* both addresses end with one supported transport tag
Resolved ==
    /\ LastTag(args.forest) /= None
    /\ LastTag(args.forest) = LastTag(args.lotus)
    /\ LastTag(args.forest) \in {"http", "ws"}

ProtocolErrors == {"communication protocols mismatch", "unsupported protocol"}

\* C14: derive_protocol gives a protocol iff both addresses end with the
\* same tag and the tag is http (Http) or ws (Ws); it gives an error when the
\* tags differ, when an address has no last tag, and when the shared tag is
\* not supported; seen in what compare_apis does with the result.
C14_DeriveProtocol ==
    pc /= "compare"
    => /\ Resolved => /\ ret \notin ProtocolErrors
                      /\ LastTag(args.forest) = "http" => communication = "Http"
                      /\ LastTag(args.forest) = "ws" => communication = "Ws"
       /\ ~Resolved => pc = "done" /\ ret \in ProtocolErrors /\ communication = "none"
       /\ (LastTag(args.forest) /= LastTag(args.lotus)
           \/ LastTag(args.forest) = None \/ LastTag(args.lotus) = None)
          => ret = "communication protocols mismatch"

\* compare_apis has failed on two addresses that both end with wss
C14_Witness ==
    /\ pc = "done" /\ ret = "unsupported protocol"
    /\ LastTag(args.forest) = "wss" /\ LastTag(args.lotus) = "wss"

\* C15: when the addresses do not resolve to one protocol, compare_apis
\* returns the error with no catalogue built, no task and so no call, no
\* archive opened and nothing printed, and nothing of that happens later.
C15_MismatchStopsAll ==
    (pc /= "compare" /\ ~Resolved)
    => /\ pc = "done" /\ ret \in ProtocolErrors
       /\ tests = <<>> /\ units = <<>>
       /\ ~store_opened
       /\ printed = <<>>
       /\ success_results = EmptyMap /\ failed_results = EmptyMap

\* compare_apis has failed on an http and a ws address, with static tests
\* and an archive at hand
C15_Witness ==
    /\ pc = "done" /\ ret = "communication protocols mismatch"
    /\ LastTag(args.forest) = "http" /\ LastTag(args.lotus) = "ws"
    /\ args.static_tests /= <<>> /\ args.snapshot_files /= <<>>

\* the archive has a read of snapshot_tests that fails
ArchiveReadFails ==
    /\ args.snapshot_files /= <<>>
    /\ args.snapshot_files[1].fail.kind \in FailKinds \cup {"heaviest_tipset"}

ArchiveErrors ==
    {"heaviest tipset", "block messages", "message cid", "state tree",
     "Market actor not found", "proposals"}

\* C16: when a read of the archive fails in snapshot_tests, at the heaviest
\* tipset or in any tipset of the window, compare_apis returns that error
\* with no test in the catalogue, no task and so no call, and nothing
\* printed; the tests pushed before the failure are never run.
C16_ArchiveFailureStopsAll ==
    (pc /= "compare" /\ Resolved /\ ArchiveReadFails)
    => /\ pc = "done" /\ ret \in ArchiveErrors
       /\ tests = <<>> /\ units = <<>>
       /\ printed = <<>>
       /\ success_results = EmptyMap /\ failed_results = EmptyMap

\* compare_apis has failed at the deal proposals of the last tipset, after
\* snapshot_tests had pushed the tests of the tipsets before it
C16_Witness ==
    /\ pc = "done" /\ ret = "proposals" /\ Resolved
    /\ args.snapshot_files /= <<>>
    /\ args.snapshot_files[1].fail = [kind |-> "proposals", pos |-> MaxTipsets]
    /\ args.static_tests /= <<>>

\* every task spawned has completed with its status pair
AllPairsFixed == \A i \in Started : Finished(i)

\* the counts of the status pairs of the tasks spawned, successes or failures
Tally(successes) ==
    LET counted == {i \in Started : SuccessKey(units[i].output) = successes}
    IN [key \in {units[i].output : i \in counted} |->
          Cardinality({i \in counted : units[i].output = key})]

SameMap(map, tally) ==
    /\ DOMAIN map = DOMAIN tally
    /\ \A key \in DOMAIN tally : map[key] = tally[key]

\* C18 (as stated): under every configuration, once run_tests has returned
\* and every executed case has its status pair, the two maps are the counts
\* of those pairs, which is what makes them the same for every order of
\* completion.
C18_OrderIndependent ==
    (pc = "done" /\ AllPairsFixed)
    => /\ SameMap(success_results, Tally(TRUE))
       /\ SameMap(failed_results, Tally(FALSE))

\* C18 (amended): with fail-fast off, once run_tests has returned and every
\* executed case has its status pair (no task ended with a join error), the
\* two maps are the counts of those pairs, whatever the order of completion.
C18_OrderIndependentWithoutFailFast ==
    (pc = "done" /\ ~config.fail_fast /\ AllPairsFixed)
    => /\ SameMap(success_results, Tally(TRUE))
       /\ SameMap(failed_results, Tally(FALSE))

\* without fail-fast and with two permits, two cases were counted under one
\* key of the success map
C18_Witness ==
    /\ pc = "done" /\ ~config.fail_fast /\ AllPairsFixed
    /\ config.max_concurrent_requests = 2
    /\ \E key \in DOMAIN success_results : success_results[key] = 2

\* the tests the run mode and the filter list let run
Eligible ==
    {i \in Authorized :
        /\ config.run_ignored = "Default" => tests[i].ignore = None
        /\ config.run_ignored = "IgnoredOnly" => tests[i].ignore /= None}

\* C19: with fail-fast off and no task ending with a join error, when
\* run_tests has returned every eligible case was run and consumed, whatever
\* its calls returned, and the counts of the two maps sum to the number of
\* eligible cases.
C19_NoOutcomeAborts ==
    (/\ pc = "done" /\ ~config.fail_fast
     /\ \A i \in DOMAIN units : units[i].state /= "join_error")
    => /\ Started = Eligible
       /\ Eligible = ConsumedUnits
       /\ SumOf(success_results) + SumOf(failed_results) = Cardinality(Eligible)

\* the run has returned with a failure and a success counted, fail-fast off
C19_Witness ==
    /\ pc = "done" /\ ~config.fail_fast
    /\ Cardinality(ConsumedUnits) = 2
    /\ SumOf(failed_results) = 1 /\ SumOf(success_results) = 1
    /\ \E i \in ConsumedUnits : ~units[i].lotus_resp.ok

\* the two errors of a case are equal: run does not classify them
EqualErrors(i) ==
    BothErrors(i) /\ units[i].forest_resp.error = units[i].lotus_resp.error

\* the status the stated precedence gives to an error, if it gives one
HasClaimedStatus(err, status) ==
    /\ err.code.tag = "MethodNotFound" => status = "MissingMethod"
    /\ err.code.tag \in {"InvalidRequest", "OversizedRequest"}
       => status = "InvalidRequest"
    /\ (/\ err.code.tag \notin {"MethodNotFound", "InvalidRequest", "OversizedRequest"}
        /\ err.message = "Operation timed out")
       => status = "Timeout"

\* C20 (as stated): an error that run classifies on its own is MissingMethod
\* when its code is method-not-found and InvalidRequest when its code is
\* invalid-request or oversized-request, whatever its message; every other
\* error whose message contains "timed out" is Timeout, whatever its code.
C20_Precedence ==
    \A i \in DOMAIN units :
        (Finished(i) /\ ~EqualErrors(i))
        => /\ ~units[i].forest_resp.ok
              => HasClaimedStatus(units[i].forest_resp.error, units[i].output[2])
           /\ ~units[i].lotus_resp.ok
              => HasClaimedStatus(units[i].lotus_resp.error, units[i].output[3])

\* the sides of the finished cases whose error run has classified on its own
ClassifiedErrors ==
    {<<units[i].forest_resp.error, units[i].output[2]>> :
        i \in {j \in DOMAIN units :
                  Finished(j) /\ ~EqualErrors(j) /\ ~units[j].forest_resp.ok}}
    \cup
    {<<units[i].lotus_resp.error, units[i].output[3]>> :
        i \in {j \in DOMAIN units :
                  Finished(j) /\ ~EqualErrors(j) /\ ~units[j].lotus_resp.ok}}

RequestCodes == {"MethodNotFound", "InvalidRequest", "OversizedRequest"}

StatusOrder ==
    <<"MissingMethod", "InvalidRequest", "InternalServerError", "InvalidJSON",
      "InvalidResponse", "Timeout", "Valid">>

PlaceOf(status) == CHOOSE k \in 1..Len(StatusOrder) : StatusOrder[k] = status

\* a row of the table comes before another: method, Forest status, Lotus status
RowBefore(x, y) ==
    IF x.method[1] /= y.method[1] THEN StrLess(x.method[1], y.method[1])
    ELSE IF x.forest /= y.forest THEN PlaceOf(x.forest) < PlaceOf(y.forest)
    ELSE PlaceOf(x.lotus) < PlaceOf(y.lotus)

\* the count a row shows
RowCount(row) == IF Len(row.method) = 2 THEN row.method[2] ELSE 1

RECURSIVE SumOfRows(_)
SumOfRows(rows) ==
    IF rows = <<>> THEN 0 ELSE RowCount(Head(rows)) + SumOfRows(Tail(rows))

\* C22: the printed table has exactly one row for every key of either map,
\* with the count of the key, the counts of the rows sum to the counts of the
\* two maps, the rows ascend by (method, Forest status, Lotus status) in the
\* order MissingMethod < InvalidRequest < InternalServerError < InvalidJSON <
\* InvalidResponse < Timeout < Valid, and a row shows its count iff it is
\* greater than 1.
C22_Table ==
    pc = "done"
    => LET table == printed[1]
           keys == DOMAIN success_results \cup DOMAIN failed_results
           count(key) == IF key \in DOMAIN failed_results THEN failed_results[key]
                         ELSE success_results[key]
       IN /\ Len(table) = Cardinality(keys)
          /\ \A key \in keys :
                Cardinality({r \in 1..Len(table) :
                               /\ table[r].method[1] = key[1]
                               /\ table[r].forest = key[2]
                               /\ table[r].lotus = key[3]}) = 1
          /\ \A r \in 1..Len(table) :
                LET key == <<table[r].method[1], table[r].forest, table[r].lotus>>
                IN /\ key \in keys
                   /\ RowCount(table[r]) = count(key)
                   /\ Len(table[r].method) = 2 <=> count(key) > 1
          /\ SumOfRows(table) = SumOf(success_results) + SumOf(failed_results)
          /\ \A r1, r2 \in 1..Len(table) :
                r1 < r2 => RowBefore(table[r1], table[r2])
          /\ \A k1, k2 \in 1..Len(StatusOrder) :
                k1 < k2 => StatusRank(StatusOrder[k1]) < StatusRank(StatusOrder[k2])

\* a table of two rows of one method was printed: a failure counted twice
\* before a success counted once
C22_Witness ==
    /\ pc = "done" /\ Len(printed[1]) = 2
    /\ printed[1][1].method[1] = printed[1][2].method[1]
    /\ Len(printed[1][1].method) = 2 /\ Len(printed[1][2].method) = 1
    /\ printed[1][1].forest = "InvalidJSON" /\ printed[1][2].forest = "Valid"

\* C23: a permit is held exactly by the tasks that were spawned and have not
\* completed both calls; a task that has completed, consumed or not, holds
\* none, so the permits available are the cap less the tasks still running.
C23_PermitBackAtCompletion ==
    /\ permits = config.max_concurrent_requests - Cardinality(RunningUnits)
    /\ \A i \in DOMAIN units :
          units[i].state = "completed"
          => permits >= 1 \/ Cardinality(RunningUnits) = config.max_concurrent_requests

\* with one permit, the second task runs while the result of the first,
\* which has completed, is not consumed yet
C23_Witness ==
    /\ config.max_concurrent_requests = 1 /\ Len(tests) = 2
    /\ units[1].state = "completed"
    /\ units[2].state \in Running

\* C24: for a test built with RpcTest::basic, when both endpoints return
\* values that pass the syntax check, run returns (Valid, Valid), whether
\* the two values are equal or not.
C24_BasicIsSyntaxOnly ==
    \A i \in DOMAIN units :
        (/\ Finished(i) /\ tests[i].kind = "basic"
         /\ SyntaxValid(units[i].forest_resp) /\ SyntaxValid(units[i].lotus_resp))
        => Statuses(i) = <<"Valid", "Valid">>

\* a basic test was run on two values that decode to different domain values
C24_Witness ==
    \E i \in DOMAIN units :
        /\ Finished(i) /\ tests[i].kind = "basic"
        /\ SyntaxValid(units[i].forest_resp) /\ SyntaxValid(units[i].lotus_resp)
        /\ Domain(units[i].forest_resp) /= Domain(units[i].lotus_resp)

\* what the lines of a filter file alone say about a name
FileAllows(lines, name) ==
    LET trimmed == {Trimmed(lines[k]) : k \in 1..Len(lines)}
        allows == {t \in trimmed : t /= <<>> /\ t[1] /= "!" /\ t[1] /= "#"}
        rejects == {Unbanged(t) : t \in {u \in trimmed : u /= <<>> /\ u[1] = "!"}}
    IN /\ allows = {} \/ \E a \in allows : contains(name, a)
       /\ \A r \in rejects : ~contains(name, r)

\* C25: without a filter file a test passes the filter iff its method name
\* contains the inline filter, case-sensitively, so the default empty filter
\* passes every test; with a filter file the rules of the file alone decide
\* and the inline filter is not consulted. Seen in mode All, where the filter
\* alone decides whether a test is skipped.
C25_InlineFilter ==
    \A i \in DOMAIN units :
        (units[i].state /= "pending" /\ config.run_ignored = "All")
        => LET name == tests[i].method_name
               passes == units[i].state /= "skipped"
           IN /\ ~config.filter_file.present
                 => (passes <=> contains(name, config.filter))
              /\ (~config.filter_file.present /\ config.filter = <<>>) => passes
              /\ config.filter_file.present
                 => (passes <=> FileAllows(config.filter_file.lines, name))

\* without a file, a name that has the filter in the other case was skipped
C25_Witness ==
    \E i \in DOMAIN units :
        /\ config.run_ignored = "All" /\ units[i].state = "skipped"
        /\ ~config.filter_file.present /\ config.filter = <<"B">>
        /\ tests[i].method_name = <<"a", "b">>

\* the catalogue compare_apis builds when no archive is given
BuiltCatalogue ==
    args.static_tests \o (IF communication = "Ws" THEN websocket_tests ELSE <<>>)

\* the tests of a list that have one method name, in the order of the list
Named(ts, m) == LET Is(t) == t.method_name = m IN SelectSeq(ts, Is)

\* C26: run_tests is given the tests in non-decreasing order of method name,
\* tests of one name in the order they were generated, and spawns them in
\* that order: no test is started while an earlier one is still undecided.
\* Stated for the runs in which compare_apis reached run_tests.
C26_StartOrder ==
    (pc /= "compare" /\ communication /= "none")
    => /\ \A i, j \in DOMAIN tests :
             i < j => ~StrLess(tests[j].method_name, tests[i].method_name)
       /\ args.snapshot_files = <<>>
          => \A m \in Methods \cup {<<"b">>} :
                 Named(tests, m) = Named(BuiltCatalogue, m)
       /\ \A i, j \in DOMAIN units :
             (i < j /\ j \in Started) => units[i].state /= "pending"

\* two tests of one name, generated ignored first, and the WebSocket test
\* have all been started
C26_Witness ==
    /\ Len(tests) = 3 /\ Started = {1, 2, 3}
    /\ tests[1].method_name = tests[2].method_name
    /\ tests[1].ignore /= None /\ tests[2].ignore = None
    /\ tests[3].method_name = <<"b">>

\* the positions on the chain of the tipsets whose key a test of the method
\* has as its last parameter
KeyedAt(method) ==
    {tests[i].params[Len(tests[i].params)][2] : i \in TestsOf(method)}

\* the tests of a method whose last parameter is the key of the tipset at pos
TestsAt(method, pos) ==
    {i \in TestsOf(method) : tests[i].params[Len(tests[i].params)] = TipsetKey(pos)}

\* C27: when snapshot_tests succeeds it has visited the first
\* min(n_tipsets, length of the chain) tipsets of the chain of the heaviest
\* tipset, heaviest first and then parent after parent; every visited tipset
\* has exactly one test of the circulating supply and one of the internal
\* circulating supply; with n_tipsets = 0 the tests are the root tests.
C27_VisitedTipsets ==
    Generated
    => /\ KeyedAt("Filecoin.ChainGetMessagesInTipset") = Window
       /\ Cardinality(Window)
            = (IF config.n_tipsets < Len(Store.chain) THEN config.n_tipsets
               ELSE Len(Store.chain))
       /\ \A i, j \in TestsOf("Filecoin.ChainGetMessagesInTipset") :
             i < j => tests[i].params[1][2] < tests[j].params[1][2]
       /\ \A m \in {"Filecoin.ChainGetMessagesInTipset",
                     "Filecoin.StateCirculatingSupply",
                     "Filecoin.StateVMCirculatingSupplyInternal"} :
             /\ \A pos \in Window : Cardinality(TestsAt(m, pos)) = 1
             /\ Cardinality(TestsOf(m)) = Cardinality(Window)
       /\ config.n_tipsets = 0 => tests = root_tests(Store)

\* n_tipsets is greater than the length of the chain, and the heaviest
\* tipset and its parent were visited
C27_Witness ==
    /\ Generated
    /\ Len(Store.chain) = 2 /\ config.n_tipsets = 3
    /\ TestsAt("Filecoin.StateCirculatingSupply", 2) /= {}

\* C28: every visited tipset has min(5, number of its deal proposals) tests
\* of StateMarketStorageDeal, for its first deals, so at most 5 for a tipset
\* and at most 5 * n_tipsets in all.
C28_DealsPerTipset ==
    Generated
    => /\ \A pos \in Window :
             LET deals == Store.chain[pos].deals
                 taken == IF deals < 5 THEN deals ELSE 5
             IN /\ Cardinality(TestsAt("Filecoin.StateMarketStorageDeal", pos)) = taken
                /\ {tests[i].params[1] :
                       i \in TestsAt("Filecoin.StateMarketStorageDeal", pos)} = 1..taken
                /\ taken <= 5
       /\ KeyedAt("Filecoin.StateMarketStorageDeal") \subseteq Window
       /\ Cardinality(TestsOf("Filecoin.StateMarketStorageDeal")) <= 5 * config.n_tipsets

\* a tipset of six deals and a tipset of two deals were visited
C28_Witness ==
    /\ Generated
    /\ Window = {1, 2}
    /\ Store.chain[1].deals = 6 /\ Store.chain[2].deals = 2
    /\ Cardinality(TestsOf("Filecoin.StateMarketStorageDeal")) = 7

\* the methods of the tests pushed after ChainGetMessage for a new message
FollowMethods ==
    {"Filecoin.StateAccountKey", "Filecoin.StateLookupID", "Filecoin.StateWaitMsg",
     "Filecoin.StateSearchMsg", "Filecoin.StateSearchMsgLimited",
     "Filecoin.StateListMessages", "Filecoin.MpoolGetNonce",
     "Filecoin.StateDecodeParams"}

\* the tests generated for the message c: its ChainGetMessage test and the
\* tests that follow it up to the next test of another scope
Scoped(c) ==
    LET k == CHOOSE i \in TestsOf("Filecoin.ChainGetMessage") : tests[i].params = <<c>>
    IN {j \in k..Len(tests) :
          \A m \in (k + 1)..j : tests[m].method_name \in FollowMethods}

\* two tests make the same request
SameRequest(i, j) ==
    /\ tests[i].method_name = tests[j].method_name
    /\ tests[i].params = tests[j].params

\* C29 (as stated): among the tests generated for one message CID no two
\* have the same method and the same parameters, whether the message was
\* first met as a BLS or as a Secp256k1 message.
C29_EmittedOnce ==
    Generated
    => \A c \in WindowCids :
          \A i, j \in Scoped(c) : i /= j => ~SameRequest(i, j)

\* the order in which snapshot_tests meets the messages of the window:
\* tipset, block, BLS before Secp256k1, place in the set
Before(o1, o2) ==
    \/ o1[1] < o2[1]
    \/ o1[1] = o2[1] /\ o1[2] < o2[2]
    \/ o1[1] = o2[1] /\ o1[2] = o2[2] /\ o1[3] /\ ~o2[3]
    \/ o1[1] = o2[1] /\ o1[2] = o2[2] /\ o1[3] = o2[3] /\ o1[4] < o2[4]

\* the message c is first met as a BLS message
FirstIsBls(c) ==
    LET first == CHOOSE o \in Occurrences :
                    /\ CidAt(o) = c
                    /\ \A o2 \in Occurrences :
                          (CidAt(o2) = c /\ o2 /= o) => Before(o, o2)
    IN first[3]

\* the methods of the tests generated for the message c
KindsOf(c) == {tests[i].method_name : i \in Scoped(c)}

\* the parameters of the tests of a method generated for the message c
ParamsOf(c, method) ==
    {tests[i].params : i \in {j \in Scoped(c) : tests[j].method_name = method}}

\* the kinds the specification lists for a new message
ListedKinds ==
    {"Filecoin.ChainGetMessage", "Filecoin.StateAccountKey", "Filecoin.StateLookupID",
     "Filecoin.StateWaitMsg", "Filecoin.StateSearchMsg",
     "Filecoin.StateSearchMsgLimited", "Filecoin.StateListMessages"}

\* C30 (as stated): every message first seen in the traversal, BLS or
\* Secp256k1, gets the same set of kinds of tests, the listed ones.
C30_SameKinds ==
    Generated => \A c \in WindowCids : KindsOf(c) = ListedKinds

\* C30 (amended): every message first seen gets the listed kinds, with the
\* account key asked at the key of the heaviest tipset and at the default
\* key and StateWaitMsg given a timeout of 30 seconds. A message first seen
\* as BLS gets nothing else, and one listing test filtered by sender and
\* receiver. A message first seen as Secp256k1 also gets MpoolGetNonce and,
\* if its parameters are not empty, StateDecodeParams, and three listing
\* tests: by receiver, by sender, and unfiltered.
C30_KindsByScheme ==
    Generated
    => \A c \in WindowCids :
          LET msg == Message(c)
              tail == <<TipsetKey(1), Epoch(Store, 1)>>
          IN /\ ListedKinds \subseteq KindsOf(c)
             /\ ParamsOf(c, "Filecoin.StateAccountKey")
                  = {<<msg.from, TipsetKey(1)>>, <<msg.from, DefaultKey>>}
             /\ \A i \in Scoped(c) :
                   tests[i].method_name = "Filecoin.StateWaitMsg"
                   => tests[i].timeout = 30 /\ tests[i].params = <<c, 0>>
             /\ FirstIsBls(c)
                => /\ KindsOf(c) = ListedKinds
                   /\ ParamsOf(c, "Filecoin.StateListMessages")
                        = {<< <<msg.from, msg.to>> >> \o tail}
             /\ ~FirstIsBls(c)
                => /\ KindsOf(c) = ListedKinds \cup {"Filecoin.MpoolGetNonce"}
                                \cup (IF msg.params /= <<>>
                                      THEN {"Filecoin.StateDecodeParams"} ELSE {})
                   /\ ParamsOf(c, "Filecoin.StateListMessages")
                        = {<< <<NoAddress, msg.to>> >> \o tail,
                           << <<msg.from, NoAddress>> >> \o tail,
                           << <<NoAddress, NoAddress>> >> \o tail}

\* tests were generated for a message first seen as BLS, for a Secp256k1
\* message with parameters and for a Secp256k1 message without
C30_Witness ==
    /\ Generated
    /\ \E c \in WindowCids : FirstIsBls(c)
    /\ \E c \in WindowCids :
          ~FirstIsBls(c) /\ "Filecoin.StateDecodeParams" \in KindsOf(c)
    /\ \E c \in WindowCids :
          ~FirstIsBls(c) /\ "Filecoin.StateDecodeParams" \notin KindsOf(c)

\* a step of a spawned task: a unit that holds a permit moves on
UnitStep ==
    \E i \in DOMAIN units :
        /\ units[i].state \in Running
        /\ i \in DOMAIN units' /\ units'[i] /= units[i]

\* a step of run_tests itself: the scheduling loop or the consuming loop
\* decides on a test
CoordinatorStep ==
    \E i \in DOMAIN units :
        /\ units[i].state \in {"pending", "completed", "panicked"}
        /\ i \in DOMAIN units' /\ units'[i].state /= units[i].state

MapsUnchanged ==
    success_results' = success_results /\ failed_results' = failed_results

\* C31 (as stated): no step of an execution unit changes a result map or
\* the number of available permits.
C31_OnlyCoordinator ==
    [][UnitStep => (MapsUnchanged /\ permits' = permits)]_vars

\* C31 (amended): the result maps change only in steps of run_tests, never
\* in a step of a spawned task; run_tests takes the permits, but every
\* permit is given back by the task that holds it, in the step in which the
\* task ends.
C31_MapsByCoordinatorPermitsByBoth ==
    [][/\ UnitStep => MapsUnchanged
       /\ ~MapsUnchanged => CoordinatorStep
       /\ permits' < permits => (CoordinatorStep /\ permits' = permits - 1)
       /\ permits' > permits
          => /\ permits' = permits + 1
             /\ \E i \in DOMAIN units :
                   /\ units[i].state \in Running
                   /\ units'[i].state \in {"completed", "panicked"}]_vars

\* a task has given its permit back and its result has been counted
C31_Witness ==
    \E i \in DOMAIN units :
        /\ units[i].state = "consumed"
        /\ permits = config.max_concurrent_requests
        /\ DOMAIN success_results \cup DOMAIN failed_results /= {}

\* with fail-fast, the consuming loop has counted a failure
FailureObserved == config.fail_fast /\ DOMAIN failed_results /= {}

\* a task is spawned for the test i
Starts(i) == units[i].state = "pending" /\ units'[i].state = "spawned"

\* the task i issues a call to an endpoint
IssuesCall(i) ==
    /\ units'[i].state \in {"forest_call", "lotus_call"}
    /\ units'[i].state /= units[i].state

\* no step takes a running task out of its course
NotAborted(i) ==
    units[i].state \in Running
    => units'[i].state \in Running \cup {"completed", "panicked"}

\* C32 (as stated): with fail-fast, after a failure was observed no task is
\* spawned and no call is issued to an endpoint, and no running task is
\* aborted.
C32_NoFurtherWork ==
    [][FailureObserved
       => \A i \in DOMAIN units : ~Starts(i) /\ ~IssuesCall(i) /\ NotAborted(i)]_vars

\* C32 (amended): with fail-fast, when a failure is observed run_tests has
\* left the consuming loop and every eligible test has a task already, so no
\* task is spawned afterwards; the tasks that are still running are not
\* aborted and go on: a task that has not called Forest yet calls it, and a
\* task whose call to Forest returns calls Lotus.
C32_NoFurtherScheduling ==
    /\ [](FailureObserved
          => /\ pc = "done"
             /\ \A i \in DOMAIN units : units[i].state /= "pending")
    /\ [][FailureObserved
          => \A i \in DOMAIN units :
                /\ ~Starts(i)
                /\ NotAborted(i)
                /\ IssuesCall(i) => units[i].state \in {"spawned", "forest_call"}]_vars

\* fail-fast has ended the run while a task has a call to Forest outstanding
\* and its call to Lotus not yet issued
C32_Witness ==
    /\ FailureObserved /\ pc = "done"
    /\ \E i \in DOMAIN units : units[i].state = "forest_call"

\* the calls before the call k that marked the block cid bad
MarksBefore(k, cid) ==
    {j \in 1..(k - 1) :
        /\ sync_calls[j].method = "sync_mark_bad"
        /\ sync_calls[j].params = Parsed(cid)
        /\ sync_calls[j].reply.ok}

\* C33: sync_check_bad answers the empty string for a block CID that was
\* never marked bad and the reason "Marked bad manually through RPC API" in
\* every call after a successful sync_mark_bad of that CID, whatever was
\* marked for other CIDs.
C33_MarkedBad ==
    \A k \in DOMAIN sync_calls :
        (sync_calls[k].method = "sync_check_bad" /\ sync_calls[k].params.parsed)
        => sync_calls[k].reply
             = Reply(IF MarksBefore(k, sync_calls[k].params.cid) = {}
                     THEN "" ELSE MarkedReason)

\* a block was marked bad, then another block was found not bad and the
\* marked block bad
C33_Witness ==
    /\ Len(sync_calls) = 3
    /\ sync_calls[1] = SyncCall("sync_mark_bad", Parsed(1), Reply(""))
    /\ sync_calls[2] = SyncCall("sync_check_bad", Parsed(2), Reply(""))
    /\ sync_calls[3] = SyncCall("sync_check_bad", Parsed(1), Reply(MarkedReason))

\* the consuming loop has taken a completion or a join error
ConsumptionBegun ==
    \E i \in DOMAIN units : units[i].state \in {"consumed", "join_error"}

\* C34: with or without fail-fast, nothing is consumed before every eligible
\* test has its task: once consumption has begun no test is left undecided,
\* so the failure of an early task leaves no later eligible test without a
\* task, and the calls of the tasks still running stay possible; at the
\* step that consumes the first completion at most max_concurrent_requests
\* tasks have not completed both calls.
C34_ConsumeAfterScheduling ==
    /\ [](ConsumptionBegun
          => /\ next_test > Len(tests)
             /\ \A i \in DOMAIN units :
                   /\ units[i].state /= "pending"
                   /\ units[i].state = "skipped" <=> skipped(config, tests[i])
                   /\ units[i].state = "spawned" => ENABLED CallForest(i)
                   /\ units[i].state = "forest_call"
                      => \A resp \in ExecResponses : ENABLED ForestReturns(i, resp))
    /\ [][(~ConsumptionBegun /\ ConsumptionBegun')
          => /\ Cardinality(RunningUnits) <= config.max_concurrent_requests
             /\ \A i \in DOMAIN units : units[i].state /= "pending"]_vars

\* with fail-fast a failure was consumed and the run has ended, while a
\* later task is spawned and has not issued a call yet
C34_Witness ==
    /\ config.fail_fast /\ pc = "done"
    /\ Len(units) = 2
    /\ units[1].state = "consumed" /\ DOMAIN failed_results /= {}
    /\ units[2].state = "spawned"

\* the response is an error with the JSON-RPC parse-error code
IsParseError(resp) == ~resp.ok /\ resp.error.code.tag = "ParseError"

RecordedKeys == DOMAIN success_results \cup DOMAIN failed_results

Returned ==
    /\ pc = "done" /\ ret /= "none" /\ Len(printed) = 1
    /\ next_test > Len(tests)
    /\ \A i \in DOMAIN units :
          /\ units[i].state /= "pending"
          /\ units[i].state = "skipped" <=> skipped(config, tests[i])

\* C36: with at least one permit, and every call to an endpoint returning,
\* run_tests ends: every eligible test gets its task, the consuming loop
\* ends, one table is printed and run_tests returns; a scheduling loop that
\* waits for a permit gets one.
C36_Terminates ==
    /\ (config.max_concurrent_requests >= 1) ~> Returned
    /\ \A k \in 1..MaxTests :
          (config.max_concurrent_requests >= 1 /\ pc = "run" /\ next_test = k
           /\ k <= Len(tests) /\ permits = 0)
          ~> next_test > k

\* run_tests has returned with one permit, after its second test had to
\* wait for the permit of the first
C36_Witness ==
    /\ Returned
    /\ config.max_concurrent_requests = 1
    /\ Len(units) = 2
    /\ \A i \in DOMAIN units : units[i].state = "consumed"

\* the first eligible test of the catalogue
FirstEligible == CHOOSE i \in Eligible : \A j \in Eligible : i <= j

\* C37: with max_concurrent_requests = 0 and an eligible test, run_tests
\* reaches the first eligible test and never gets past it: no task is spawned, no
\* call is issued, nothing is printed and run_tests does not return; with
\* max_concurrent_requests = 0 and no eligible test it prints an empty
\* table and returns Ok.
C37_ZeroPermits ==
    /\ []((config.max_concurrent_requests = 0 /\ Eligible /= {})
          => /\ pc = "run" /\ printed = <<>> /\ ret = "none"
             /\ permits = 0
             /\ next_test <= FirstEligible
             /\ \A i \in DOMAIN units : units[i].state \in {"pending", "skipped"})
    /\ (config.max_concurrent_requests = 0 /\ Eligible /= {})
          ~> (Eligible /= {} /\ next_test = FirstEligible)
    /\ (config.max_concurrent_requests = 0 /\ Eligible = {})
          ~> (Returned /\ ret = "Ok" /\ printed = << <<>> >>)

\* without a permit the scheduling loop has skipped an ignored test and
\* waits at the eligible test after it
C37_Witness ==
    /\ config.max_concurrent_requests = 0
    /\ Len(tests) = 2 /\ Eligible = {2}
    /\ units[1].state = "skipped" /\ next_test = 2

\* C38: a task issues its call to Lotus only when its call to Forest has
\* returned, with a value, an error or a timeout, so the two calls of a task
\* are never outstanding together; both calls are issued with the same
\* method of ApiInfo, ws_call on a WebSocket connection and call otherwise.
C38_ForestThenLotus ==
    \A i \in DOMAIN units :
        /\ units[i].lotus_via /= "none"
           => /\ units[i].forest_resp /= NoResponse
              /\ units[i].lotus_via = units[i].forest_via
        /\ units[i].forest_via /= "none"
           => units[i].forest_via = call_kind(communication)
        /\ units[i].state = "forest_call"
           => /\ units[i].forest_via /= "none" /\ units[i].lotus_via = "none"
              /\ units[i].forest_resp = NoResponse
        /\ units[i].state = "lotus_call"
           => /\ units[i].lotus_via /= "none"
              /\ units[i].forest_resp /= NoResponse
              /\ units[i].lotus_resp = NoResponse

\* over a WebSocket connection the call to Forest has timed out and the call
\* to Lotus is outstanding
C38_Witness ==
    \E i \in DOMAIN units :
        /\ communication = "Ws"
        /\ units[i].state = "lotus_call"
        /\ units[i].forest_resp = Err(TimeoutError)
        /\ units[i].lotus_via = "ws_call"

\* the consuming loop has met the join error of a task
JoinErrorMet == \E i \in DOMAIN units : units[i].state = "join_error"

\* C39: when the consuming loop meets a join error it ends, with or without
\* fail-fast: run_tests has printed the table of the results consumed
\* before and has returned, Ok if no failure was counted before; the results
\* of the tasks not consumed by then are never counted.
C39_JoinErrorStops ==
    /\ [](JoinErrorMet
          => /\ pc = "done"
             /\ printed = <<print_test_results(success_results, failed_results)>>
             /\ RecordedKeys = ConsumedKeys
             /\ \A key \in RecordedKeys :
                   CountOf(key) = (IF key \in DOMAIN success_results
                                   THEN success_results[key]
                                   ELSE failed_results[key])
             /\ ret = (IF DOMAIN failed_results = {} THEN "Ok"
                       ELSE "Some tests failed"))
    /\ [][JoinErrorMet
          => /\ ConsumedUnits' = ConsumedUnits
             /\ MapsUnchanged
             /\ printed' = printed /\ ret' = ret]_vars

\* without fail-fast a join error has ended the run with Ok while the
\* failing result of another task was left unconsumed
C39_Witness ==
    /\ ~config.fail_fast /\ JoinErrorMet
    /\ ret = "Ok"
    /\ \E i \in DOMAIN units :
          /\ units[i].state = "completed"
          /\ ~is_success(units[i].output[2], units[i].output[3])


\* the rules FilterList::new_from_file takes from the filter file
FileRules ==
    {filter_list(config).allow[k] : k \in 1..Len(filter_list(config).allow)}
    \cup {filter_list(config).reject[k] : k \in 1..Len(filter_list(config).reject)}

\* C40 (as stated): no rule parsed from a filter file is the empty string, so
\* no line of the file gives a rule that every method name contains.
C40_NoEmptyRule ==
    config.filter_file.present => \A rule \in FileRules : rule /= <<>>

====
